---- MODULE Spec2Model ----
(***************************************************************************)
(* A model of gophc, a codec for PHC strings ("$function$params$salt$hash") *)
(* Go strings and byte slices are sequences of one-character strings.      *)
(* A nil slice and an empty slice are both the empty sequence.             *)
(***************************************************************************)
EXTENDS Integers, Sequences, FiniteSets, TLC

VARIABLES
    schema,            \* the *PHCSchema Decode is called on
    input,             \* the argument s of PHCSchema.Decode
    pc,                \* position of the call inside PHCSchema.Decode
    split,             \* local: the '$' separated segments not yet consumed
    parsedParameters,  \* local: the result of parseParameters (nil = <<>>)
    res,               \* local: the PHCInstance Decode returns
    err,               \* the error Decode returns
    src,               \* argument of a library function called on its own
    op,                \* the library function that was applied to src
    out,               \* what that function returned
    phc,               \* the *Argon2PHC DecodeArgon2PHC returned (nil = NilArgon2PHC)
    raw,               \* a []byte argument of a library function called on its own
    encoded,           \* the text an encoding function returned
    decoded,           \* what DecodeScrypt returned: the *ScryptPHC and the error
    waiting            \* a second call of Decode on the same schema, while the
                       \* other call runs: its argument, position and locals

vars ==
    <<schema, input, pc, split, parsedParameters, res, err, src, op, out, phc, raw, encoded,
      decoded, waiting>>

decodeVars == <<schema, input, pc, split, parsedParameters, res, err>>

libVars == <<src, op, out, phc, raw, encoded, decoded, waiting>>

\* no second call
NoWaiting == [pc |-> "none"]

(***************************************************************************)
(* Bounds of the model.                                                    *)
(***************************************************************************)
MaxDescriptions == 3

MaxParsed == 3

MaxSegments == 4

MaxBase64Len == 5

MaxBytesLen == 4

MaxDecimalLen == 3

(***************************************************************************)
(* package strings                                                         *)
(***************************************************************************)
SeqsUpTo(S, n) == UNION {[1..k -> S] : k \in 0..n}

HasPrefix(s, prefix) ==
    /\ Len(s) >= Len(prefix)
    /\ SubSeq(s, 1, Len(prefix)) = prefix

\* strings.IndexRune: the 0-based index of the first c in s, -1 if there is none
IndexRune(s, c) ==
    IF \E i \in 1..Len(s) : s[i] = c
    THEN (CHOOSE i \in 1..Len(s) : s[i] = c /\ \A k \in 1..(i-1) : s[k] # c) - 1
    ELSE -1

ContainsRune(s, c) == IndexRune(s, c) >= 0

\* strings.Split(s, sep) for a one-character separator: never empty
RECURSIVE Split(_, _)
Split(s, sep) ==
    LET index == IndexRune(s, sep)
    IN  IF index < 0
        THEN <<s>>
        ELSE <<SubSeq(s, 1, index)>> \o Split(SubSeq(s, index + 2, Len(s)), sep)

\* strings.Join
RECURSIVE Join(_, _)
Join(elems, sep) ==
    IF Len(elems) = 0 THEN <<>>
    ELSE IF Len(elems) = 1 THEN elems[1]
    ELSE elems[1] \o sep \o Join(Tail(elems), sep)

(***************************************************************************)
(* Errors.  A nil error, or a *PHCError with its message and the sentinel  *)
(* that errors.Is finds by unwrapping it.  A message is the list of the    *)
(* pieces fmt.Sprintf and + put together: literal text and string values.  *)
(***************************************************************************)
Lit(text) == [lit |-> text, arg |-> <<>>]

Arg(s) == [lit |-> "", arg |-> s]

NilError == [kind |-> "nil", Message |-> <<>>, WrappedErr |-> "nil"]

NewPHCError(message, wrapped) ==
    [kind |-> "PHCError", Message |-> message, WrappedErr |-> wrapped]

newInvalidPHCStructureError(message) ==
    NewPHCError(message, "ErrInvalidPHCStructure")

\* errors.Is(e, sentinel)
Is(e, sentinel) == e.kind # "nil" /\ e.WrappedErr = sentinel

(***************************************************************************)
(* encoding/base64 as gophc configures it: the standard alphabet, no       *)
(* padding character, strict or not.                                       *)
(***************************************************************************)
alphabet ==
    <<"A", "B", "C", "D", "E", "F", "G", "H", "I", "J", "K", "L", "M", "N", "O", "P",
       "Q", "R", "S", "T", "U", "V", "W", "X", "Y", "Z", "a", "b", "c", "d", "e", "f",
       "g", "h", "i", "j", "k", "l", "m", "n", "o", "p", "q", "r", "s", "t", "u", "v",
       "w", "x", "y", "z", "0", "1", "2", "3", "4", "5", "6", "7", "8", "9", "+", "/">>

NoPadding == -1

nonStrictEncoding == [padChar |-> NoPadding, strict |-> FALSE]

strictEncoding == [nonStrictEncoding EXCEPT !.strict = TRUE]

\* enc.decodeMap: the value of an alphabet character, 255 (0xff) for any other
decodeMap(in) ==
    IF \E i \in 1..Len(alphabet) : alphabet[i] = in
    THEN (CHOOSE i \in 1..Len(alphabet) : alphabet[i] = in) - 1
    ELSE 255

\* The read loop of decodeQuantum: up to four alphabet characters from src[si:]
\* into dbuf; '\n' and '\r' are skipped.  state is "full" or "short" (dlen
\* characters read, go on to convert), "end" (return si, 0, nil) or "corrupt".
RECURSIVE readQuantum(_, _, _, _)
readQuantum(enc, source, si, dbuf) ==
    LET j == Len(dbuf)
    IN  IF j = 4
        THEN [state |-> "full", si |-> si, dbuf |-> dbuf]
        ELSE IF Len(source) = si
        THEN IF j = 0
             THEN [state |-> "end", si |-> si, dbuf |-> dbuf]
             ELSE IF j = 1 \/ enc.padChar # NoPadding
             THEN [state |-> "corrupt", si |-> si, dbuf |-> dbuf]
             ELSE [state |-> "short", si |-> si, dbuf |-> dbuf]
        ELSE LET in == source[si + 1]
             IN  IF decodeMap(in) # 255
                 THEN readQuantum(enc, source, si + 1, Append(dbuf, decodeMap(in)))
                 ELSE IF in = "\n" \/ in = "\r"
                 THEN readQuantum(enc, source, si + 1, dbuf)
                 \* rune(in) != enc.padChar: no byte equals NoPadding
                 ELSE [state |-> "corrupt", si |-> si + 1, dbuf |-> dbuf]

\* The conversion of decodeQuantum: the 6-bit values of dbuf put together
\* and cut into bytes; bytes are the dlen-1 bytes written to dst
convertQuantum(enc, r) ==
    LET d == [k \in 1..4 |-> IF k <= Len(r.dbuf) THEN r.dbuf[k] ELSE 0]
        val == d[1] * 262144 + d[2] * 4096 + d[3] * 64 + d[4]
        b0 == val \div 65536
        b1 == (val \div 256) % 256
        b2 == val % 256
        dlen == Len(r.dbuf)
    IN  IF r.state = "end"
        THEN [si |-> r.si, bytes |-> <<>>, err |-> FALSE]
        ELSE IF r.state = "corrupt"
        THEN [si |-> r.si, bytes |-> <<>>, err |-> TRUE]
        ELSE IF dlen = 4
        THEN [si |-> r.si, bytes |-> <<b0, b1, b2>>, err |-> FALSE]
        ELSE IF dlen = 3
        THEN IF enc.strict /\ b2 # 0
             THEN [si |-> r.si, bytes |-> <<>>, err |-> TRUE]
             ELSE [si |-> r.si, bytes |-> <<b0, b1>>, err |-> FALSE]
        ELSE IF enc.strict /\ (b1 # 0 \/ b2 # 0)
             THEN [si |-> r.si, bytes |-> <<>>, err |-> TRUE]
             ELSE [si |-> r.si, bytes |-> <<b0>>, err |-> FALSE]

\* decodeQuantum: [si, bytes, err], the read loop and then the conversion
decodeQuantum(enc, source, si0) ==
    convertQuantum(enc, readQuantum(enc, source, si0, <<>>))

\* (*Encoding).Decode: quantum after quantum until src is used up.  The
\* 8- and 4-byte fast paths decode the same quanta and are not told apart.
RECURSIVE encDecode(_, _, _, _)
encDecode(enc, source, si, dst) ==
    IF si >= Len(source)
    THEN [bytes |-> dst, err |-> FALSE]
    ELSE LET q == decodeQuantum(enc, source, si)
         IN  IF q.err
             THEN [bytes |-> dst \o q.bytes, err |-> TRUE]
             ELSE encDecode(enc, source, q.si, dst \o q.bytes)

\* (*Encoding).EncodedLen without padding: (n*8 + 5) / 6
EncodedLen(n) == (n * 8 + 5) \div 6

\* (*Encoding).Encode: four characters for every three bytes, then two or
\* three characters for a remainder of one or two bytes, no padding
RECURSIVE encEncode(_)
encEncode(source) ==
    LET b(k) == IF k <= Len(source) THEN source[k] ELSE 0
        val == b(1) * 65536 + b(2) * 256 + b(3)
        c1 == alphabet[((val \div 262144) % 64) + 1]
        c2 == alphabet[((val \div 4096) % 64) + 1]
        c3 == alphabet[((val \div 64) % 64) + 1]
        c4 == alphabet[(val % 64) + 1]
    IN  IF Len(source) = 0 THEN <<>>
        ELSE IF Len(source) = 1 THEN <<c1, c2>>
        ELSE IF Len(source) = 2 THEN <<c1, c2, c3>>
        ELSE <<c1, c2, c3, c4>> \o encEncode(SubSeq(source, 4, Len(source)))

\* Base64Encode: dst[:encodeLen] of the encoded text
Base64Encode(source) ==
    SubSeq(encEncode(source), 1, EncodedLen(Len(source)))

\* base64DecodeFromEncoding: (nil, err) on an error, else (dst[:n], nil)
base64DecodeFromEncoding(enc, source) ==
    LET d == encDecode(enc, source, 0, <<>>)
    IN  IF d.err
        THEN [bytes |-> <<>>, err |-> TRUE]
        ELSE [bytes |-> d.bytes, err |-> FALSE]

\* mutant: the strict decoder forgets to be strict
Base64DecodeLax(source) == base64DecodeFromEncoding(nonStrictEncoding, source)

Base64Decode(source) == base64DecodeFromEncoding(strictEncoding, source)

Base64DecodeNotStrict(source) == base64DecodeFromEncoding(nonStrictEncoding, source)

NewDefaultBase64Handler(strict) == [Strict |-> strict]

\* DefaultBase64Handler.Base64Decode
HandlerBase64Decode(h, source) ==
    IF h.Strict THEN Base64Decode(source) ELSE Base64DecodeNotStrict(source)

DefaultBase64 == NewDefaultBase64Handler(TRUE)

(***************************************************************************)
(* function_schema.go: parameter descriptions, schemas, parameter parsing  *)
(***************************************************************************)
\* isValidParameterValueRune: a character of [A-Za-z0-9/+.-]
isValidParameterValueRune(r) ==
    \/ decodeMap(r) # 255
    \/ r = "."
    \/ r = "-"

\* validateRuneFunc(isValidParameterValueRune, s): the first invalid rune, if any
validateRuneFunc(s) ==
    IF \E i \in 1..Len(s) : ~isValidParameterValueRune(s[i])
    THEN [onlyValidRunes |-> FALSE,
          invalidRune |-> s[CHOOSE i \in 1..Len(s) :
                              /\ ~isValidParameterValueRune(s[i])
                              /\ \A k \in 1..(i-1) : isValidParameterValueRune(s[k])]]
    ELSE [onlyValidRunes |-> TRUE, invalidRune |-> ""]

\* ValueCharacterValidator: TRUE when it returns an error
ValueCharacterValidator(value) == ~validateRuneFunc(value).onlyValidRunes

\* NoValueValidator: never an error
NoValueValidator(value) == FALSE

\* description.GetValueValidatorFunc()(value): a nil ValidateValue means
\* ValueCharacterValidator.  TRUE when the validator returns an error.
GetValueValidatorFunc(description, value) ==
    IF description.ValidateValue = "nil"
    THEN ValueCharacterValidator(value)
    ELSE NoValueValidator(value)

NewMismatchedFunctionNameError(gotName, expectedNames) ==
    LET gotNamePart == <<Lit("got name \""), Arg(gotName), Lit("\"")>>
        joined == Join([i \in 1..Len(expectedNames) |-> <<Arg(expectedNames[i])>>],
                       <<Lit(", ")>>)
        message ==
            IF Len(expectedNames) = 1
            THEN <<Arg(gotName), Lit(" expected name \"")>> \o gotNamePart \o <<Lit("\"")>>
            ELSE <<Arg(gotName), Lit(" expected name in [")>> \o joined \o <<Lit("]")>>
    IN  NewPHCError(message, "ErrMismatchedFunctionName")

wrapParameterValueErrorToPHCError(message, parameterName) ==
    NewPHCError(<<Lit(message), Arg(parameterName)>>, "ErrParameterValueValidation")

parameterMessage(name) == <<Lit("parameter \""), Arg(name), Lit("\"")>>

\* mutant: an entry without '=' is a name with an empty value
parseParameterLenient(s) ==
    LET index == IF IndexRune(s, "=") < 0 THEN Len(s) ELSE IndexRune(s, "=")
    IN  [pair |-> [Name |-> SubSeq(s, 1, index),
                   Value |-> SubSeq(s, index + 2, Len(s)),
                   IsSet |-> TRUE],
         err |-> NilError]

\* parseParameter: "name=value" split on the first '='
parseParameter(s) ==
    LET index == IndexRune(s, "=")
    IN  IF index < 0
        THEN [pair |-> [Name |-> <<>>, Value |-> <<>>, IsSet |-> FALSE],
              err |-> NewPHCError(parameterMessage(s), "ErrMissingParameterValue")]
        ELSE [pair |-> [Name |-> SubSeq(s, 1, index),
                        Value |-> SubSeq(s, index + 2, Len(s)),
                        IsSet |-> TRUE],
              err |-> NilError]

\* parseParameters: split on ',' and parse entry by entry; the first error wins
parseParameters(s) ==
    LET splitOnComma == Split(s, ",")
        pairs == [i \in 1..Len(splitOnComma) |-> parseParameter(splitOnComma[i])]
        bad == {i \in 1..Len(pairs) : pairs[i].err # NilError}
    IN  IF bad # {}
        THEN [res |-> <<>>, err |-> pairs[CHOOSE i \in bad : \A k \in bad : i <= k].err]
        ELSE [res |-> [i \in 1..Len(pairs) |-> pairs[i].pair], err |-> NilError]

\* mutant: the entry of an absent optional parameter loses its default value
defaultEntryEmptyValue(description) ==
    [Name |-> description.Name, Value |-> <<>>, IsSet |-> FALSE]

defaultEntry(description) ==
    [Name |-> description.Name, Value |-> description.Default, IsSet |-> FALSE]

\* mutant: descriptions left over get their default, optional or not
RECURSIVE matchRemainingAllDefault(_, _, _)
matchRemainingAllDefault(descriptions, descriptionIndex, result) ==
    IF descriptionIndex >= Len(descriptions)
    THEN [res |-> result, err |-> NilError]
    ELSE matchRemainingAllDefault(
             descriptions, descriptionIndex + 1,
             Append(result, [Name |-> descriptions[descriptionIndex + 1].Name,
                             Value |-> descriptions[descriptionIndex + 1].Default,
                             IsSet |-> FALSE]))

\* matchParameters, second loop: the descriptions left over must all be optional
RECURSIVE matchRemaining(_, _, _)
matchRemaining(descriptions, descriptionIndex, result) ==
    IF descriptionIndex >= Len(descriptions)
    THEN [res |-> result, err |-> NilError]
    ELSE LET nextDescription == descriptions[descriptionIndex + 1]
         IN  IF ~nextDescription.Optional
             THEN [res |-> <<>>,
                   err |-> NewPHCError(parameterMessage(nextDescription.Name),
                                       "ErrNonOptionalParameterMissing")]
             ELSE matchRemaining(descriptions, descriptionIndex + 1,
                                 Append(result, defaultEntry(nextDescription)))

\* mutant: every description looks its name up anywhere in the parsed list
matchLoopAnyOrder(descriptions, parsed, descriptionIndex, parsedIndex, result) ==
    LET given(i) == {k \in 1..Len(parsed) : parsed[k].Name = descriptions[i].Name}
        unknown == {k \in 1..Len(parsed) :
                       \A i \in 1..Len(descriptions) : descriptions[i].Name # parsed[k].Name}
        missing == {i \in 1..Len(descriptions) :
                       ~descriptions[i].Optional /\ given(i) = {}}
    IN  IF unknown # {}
        THEN [res |-> <<>>,
              err |-> NewPHCError(<<Lit("parameter")>>, "ErrUnmatchedParameterName")]
        ELSE IF missing # {}
        THEN [res |-> <<>>,
              err |-> NewPHCError(<<Lit("parameter")>>, "ErrNonOptionalParameterMissing")]
        ELSE [res |-> [i \in 1..Len(descriptions) |->
                          IF given(i) # {}
                          THEN parsed[CHOOSE k \in given(i) : TRUE]
                          ELSE [Name |-> descriptions[i].Name,
                                Value |-> descriptions[i].Default,
                                IsSet |-> FALSE]],
              err |-> NilError]

\* mutant: a name that differs from a non-optional description is reported as
\* an unmatched parsed parameter
RECURSIVE matchLoopBlameParsed(_, _, _, _, _)
matchLoopBlameParsed(descriptions, parsed, descriptionIndex, parsedIndex, result) ==
    IF descriptionIndex < Len(descriptions) /\ parsedIndex < Len(parsed)
    THEN LET nextDescription == descriptions[descriptionIndex + 1]
             nextParsed == parsed[parsedIndex + 1]
         IN  IF nextDescription.Name = nextParsed.Name
             THEN IF GetValueValidatorFunc(nextDescription, nextParsed.Value)
                  THEN [res |-> <<>>,
                        err |-> wrapParameterValueErrorToPHCError(
                                    "value validation failed", nextDescription.Name)]
                  ELSE matchLoopBlameParsed(descriptions, parsed, descriptionIndex + 1,
                                            parsedIndex + 1, Append(result, nextParsed))
             ELSE IF ~nextDescription.Optional
                  THEN [res |-> <<>>,
                        err |-> NewPHCError(parameterMessage(nextParsed.Name),
                                            "ErrUnmatchedParameterName")]
                  ELSE matchLoopBlameParsed(descriptions, parsed, descriptionIndex + 1,
                                            parsedIndex,
                                            Append(result, defaultEntry(nextDescription)))
    ELSE IF parsedIndex < Len(parsed)
    THEN [res |-> <<>>,
          err |-> NewPHCError(parameterMessage(parsed[parsedIndex + 1].Name),
                              "ErrUnmatchedParameterName")]
    ELSE matchRemaining(descriptions, descriptionIndex, result)

\* matchParameters, from the first loop on: result holds res[0:descriptionIndex]
RECURSIVE matchLoop(_, _, _, _, _)
matchLoop(descriptions, parsed, descriptionIndex, parsedIndex, result) ==
    IF descriptionIndex < Len(descriptions) /\ parsedIndex < Len(parsed)
    THEN LET nextDescription == descriptions[descriptionIndex + 1]
             nextParsed == parsed[parsedIndex + 1]
         IN  IF nextDescription.Name = nextParsed.Name
             THEN IF GetValueValidatorFunc(nextDescription, nextParsed.Value)
                  THEN [res |-> <<>>,
                        err |-> wrapParameterValueErrorToPHCError(
                                    "value validation failed", nextDescription.Name)]
                  ELSE matchLoop(descriptions, parsed, descriptionIndex + 1,
                                 parsedIndex + 1, Append(result, nextParsed))
             ELSE IF ~nextDescription.Optional
                  THEN [res |-> <<>>,
                        err |-> NewPHCError(parameterMessage(nextDescription.Name),
                                            "ErrNonOptionalParameterMissing")]
                  ELSE matchLoop(descriptions, parsed, descriptionIndex + 1,
                                 parsedIndex, Append(result, defaultEntry(nextDescription)))
    ELSE IF parsedIndex < Len(parsed)
    THEN [res |-> <<>>,
          err |-> NewPHCError(parameterMessage(parsed[parsedIndex + 1].Name),
                              "ErrUnmatchedParameterName")]
    ELSE matchRemaining(descriptions, descriptionIndex, result)

matchParameters(sch, parsed) ==
    matchLoop(sch.ParameterDescriptions, parsed, 0, 0, <<>>)

\* schema.decodeBase64
decodeBase64(sch, s) == HandlerBase64Decode(sch.Decoder, s)

\* PHCInstance{}
ZeroInstance ==
    [Function |-> <<>>, Salt |-> <<>>, SaltString |-> <<>>,
     Hash |-> <<>>, HashString |-> <<>>, Parameters |-> <<>>]

(***************************************************************************)
(* PHCSchema.Decode, one action per stage of the function.  pc = "done"    *)
(* is the return: res and err are the two values returned.                 *)
(***************************************************************************)
Return(e) ==
    /\ err' = e
    /\ pc' = "done"

\* mutant: the segments are not checked for being empty
DecodeSplitNoEmptyCheck ==
    /\ pc = "start"
    /\ IF ~HasPrefix(input, <<"$">>)
       THEN /\ Return(newInvalidPHCStructureError(
                          <<Lit("phc string must begin with \"$\"")>>))
            /\ UNCHANGED split
       ELSE /\ split' = Split(Tail(input), "$")
            /\ pc' = "FunctionName"
            /\ UNCHANGED err
    /\ UNCHANGED <<schema, input, parsedParameters, res>>
    /\ UNCHANGED libVars

\* Decode, the leading '$', the split on '$' and the empty-segment check
DecodeSplit ==
    /\ pc = "start"
    /\ IF ~HasPrefix(input, <<"$">>)
       THEN /\ Return(newInvalidPHCStructureError(
                          <<Lit("phc string must begin with \"$\"")>>))
            /\ UNCHANGED split
       ELSE LET s == Tail(input)
                parts == Split(s, "$")
            IN  /\ split' = parts
                /\ IF \E i \in 1..Len(parts) : parts[i] = <<>>
                   THEN Return(newInvalidPHCStructureError(
                                   <<Lit("found two consecutive '$' in string")>>))
                   ELSE /\ pc' = "FunctionName"
                        /\ UNCHANGED err
    /\ UNCHANGED <<schema, input, parsedParameters, res>>
    /\ UNCHANGED libVars

\* Decode, the function name against schema.FunctionNames
DecodeFunctionName ==
    /\ pc = "FunctionName"
    /\ LET functionName == split[1]
           foundFunctionName ==
               \E i \in 1..Len(schema.FunctionNames) :
                   schema.FunctionNames[i] = functionName
       IN  IF ~foundFunctionName
           THEN /\ Return(NewMismatchedFunctionNameError(functionName,
                                                        schema.FunctionNames))
                /\ UNCHANGED <<res, split>>
           ELSE /\ res' = [res EXCEPT !.Function = functionName]
                /\ split' = Tail(split)
                /\ pc' = "Parameters"
                /\ UNCHANGED err
    /\ UNCHANGED <<schema, input, parsedParameters>>
    /\ UNCHANGED libVars

\* Decode, the parameter segment: only a segment with '=' is one
DecodeParameters ==
    /\ pc = "Parameters"
    /\ IF Len(split) > 0 /\ ContainsRune(split[1], "=")
       THEN LET parsed == parseParameters(split[1])
            IN  IF parsed.err # NilError
                THEN /\ Return(parsed.err)
                     /\ UNCHANGED <<split, parsedParameters>>
                ELSE /\ parsedParameters' = parsed.res
                     /\ split' = Tail(split)
                     /\ pc' = "Match"
                     /\ UNCHANGED err
       ELSE /\ pc' = "Match"
            /\ UNCHANGED <<split, parsedParameters, err>>
    /\ UNCHANGED <<schema, input, res>>
    /\ UNCHANGED libVars

\* mutant: matchParameters uses up the descriptions of the schema
DecodeMatchConsuming ==
    /\ pc = "Match"
    /\ LET matched == matchParameters(schema, parsedParameters)
       IN  IF matched.err # NilError
           THEN /\ Return(matched.err)
                /\ UNCHANGED res
           ELSE /\ res' = [res EXCEPT !.Parameters = matched.res]
                /\ pc' = "Salt"
                /\ UNCHANGED err
    /\ schema' = [schema EXCEPT !.ParameterDescriptions = <<>>]
    /\ UNCHANGED <<input, split, parsedParameters>>
    /\ UNCHANGED libVars

\* Decode, the parsed parameters against the descriptions
DecodeMatch ==
    /\ pc = "Match"
    /\ LET matched == matchParameters(schema, parsedParameters)
       IN  IF matched.err # NilError
           THEN /\ Return(matched.err)
                /\ UNCHANGED res
           ELSE /\ res' = [res EXCEPT !.Parameters = matched.res]
                /\ pc' = "Salt"
                /\ UNCHANGED err
    /\ UNCHANGED <<schema, input, split, parsedParameters>>
    /\ UNCHANGED libVars

\* Decode, the salt
DecodeSalt ==
    /\ pc = "Salt"
    /\ IF Len(split) = 0
       THEN /\ Return(NilError)
            /\ UNCHANGED <<res, split>>
       ELSE LET salt == split[1]
                saltDecoded == decodeBase64(schema, salt)
            IN  IF saltDecoded.err
                THEN /\ res' = [res EXCEPT !.SaltString = salt]
                     /\ Return(NewPHCError(
                                   <<Lit("error decoding salt from base64 string")>>,
                                   "Base64DecodeError"))
                     /\ UNCHANGED split
                ELSE /\ res' = [res EXCEPT !.SaltString = salt,
                                           !.Salt = saltDecoded.bytes]
                     /\ split' = Tail(split)
                     /\ pc' = "Hash"
                     /\ UNCHANGED err
    /\ UNCHANGED <<schema, input, parsedParameters>>
    /\ UNCHANGED libVars

\* Decode, the hash
DecodeHash ==
    /\ pc = "Hash"
    /\ IF Len(split) = 0
       THEN /\ Return(NilError)
            /\ UNCHANGED <<res, split>>
       ELSE LET hash == split[1]
                hashDecoded == decodeBase64(schema, hash)
            IN  IF hashDecoded.err
                THEN /\ res' = [res EXCEPT !.HashString = hash]
                     /\ Return(NewPHCError(<<Lit("error decoding hash from base64")>>,
                                           "Base64DecodeError"))
                     /\ UNCHANGED split
                ELSE /\ res' = [res EXCEPT !.HashString = hash,
                                           !.Hash = hashDecoded.bytes]
                     /\ split' = Tail(split)
                     /\ pc' = "End"
                     /\ UNCHANGED err
    /\ UNCHANGED <<schema, input, parsedParameters>>
    /\ UNCHANGED libVars

\* mutant: whatever follows the hash is ignored
DecodeEndIgnoreRest ==
    /\ pc = "End"
    /\ Return(NilError)
    /\ UNCHANGED <<schema, input, split, parsedParameters, res>>
    /\ UNCHANGED libVars

\* Decode, nothing may be left after the hash
DecodeEnd ==
    /\ pc = "End"
    /\ IF Len(split) # 0
       THEN Return(NewPHCError(<<Lit("to many '$' in input string")>>,
                               "ErrInvalidPHCStructure"))
       ELSE Return(NilError)
    /\ UNCHANGED <<schema, input, split, parsedParameters, res>>
    /\ UNCHANGED libVars

(***************************************************************************)
(* Argon2 PHC strings, argon2.go.  The repository holds the codec in two   *)
(* revisions: one with a version parameter ("Version"), one with keyid and *)
(* data parameters ("KeyId").  Their regular expressions are anchored and  *)
(* '$', ',' and '=' are in none of their character classes, so a match is  *)
(* computed from the '$' segments and the ',' separated parameters.        *)
(***************************************************************************)
Digits == <<"0", "1", "2", "3", "4", "5", "6", "7", "8", "9">>

IsDigit(c) == \E i \in 1..Len(Digits) : Digits[i] = c

DigitValue(c) == (CHOOSE i \in 1..Len(Digits) : Digits[i] = c) - 1

\* strconv.Atoi / strconv.ParseUint(s, 10, 64) on a string of digits
RECURSIVE Atoi(_)
Atoi(s) ==
    IF Len(s) = 0 THEN 0
    ELSE 10 * Atoi(SubSeq(s, 1, Len(s) - 1)) + DigitValue(s[Len(s)])

\* the verb %d of fmt on a number >= 0
RECURSIVE FormatDecimal(_)
FormatDecimal(n) ==
    IF n < 10 THEN <<Digits[n + 1]>>
    ELSE FormatDecimal(n \div 10) \o <<Digits[(n % 10) + 1]>>

\* getPHCPositiveDecimalRegexString(max): (0|[1-9]\d{0,max-1})
getPHCPositiveDecimalRegexString(max, s) ==
    \/ s = <<"0">>
    \/ /\ Len(s) >= 1 /\ Len(s) <= max
       /\ IsDigit(s[1]) /\ s[1] # "0"
       /\ \A i \in 2..Len(s) : IsDigit(s[i])

\* getPHCBase64Regex(min, max): [A-Za-z0-9+/]{min,max}
getPHCBase64Regex(min, max, s) ==
    /\ Len(s) >= min /\ Len(s) <= max
    /\ \A i \in 1..Len(s) : decodeMap(s[i]) # 255

defaultVersion == 16

Argon2Variants ==
    << <<"a", "r", "g", "o", "n", "2", "i", "d">>,
       <<"a", "r", "g", "o", "n", "2", "i">>,
       <<"a", "r", "g", "o", "n", "2", "d">> >>

NilArgon2PHC == [rev |-> "nil"]

NoMatch == <<>>

\* what follows the parameter name in an entry
After(entry, name) == SubSeq(entry, Len(name) + 1, Len(entry))

\* "name=" followed by a group: the group as a one-element list, the empty
\* list when the name or the group's pattern (matched) does not match
Group(entry, name, matched) ==
    IF HasPrefix(entry, name) /\ matched THEN <<After(entry, name)>> ELSE <<>>

\* (?:\$(salt))?(?:\$(hash))?$ on the segments after the parameters: the salt
\* group is tried first, the hash group takes a lone segment it rejects
saltAndHashGroups(rest) ==
    IF Len(rest) = 0
    THEN [ok |-> TRUE, salt |-> <<>>, hash |-> <<>>]
    ELSE IF Len(rest) = 1
    THEN IF getPHCBase64Regex(11, 64, rest[1])
         THEN [ok |-> TRUE, salt |-> rest[1], hash |-> <<>>]
         ELSE [ok |-> getPHCBase64Regex(16, 86, rest[1]), salt |-> <<>>, hash |-> rest[1]]
    ELSE [ok |-> /\ Len(rest) = 2
                 /\ getPHCBase64Regex(11, 64, rest[1])
                 /\ getPHCBase64Regex(16, 86, rest[2]),
          salt |-> rest[1], hash |-> IF Len(rest) >= 2 THEN rest[2] ELSE <<>>]

\* argon2PHCRx.FindStringSubmatch, revision Version: the groups 1..7, or NoMatch
argon2PHCRxVersion(s) ==
    LET segs == Split(s, "$")
        params == IF Len(segs) >= 3 THEN Split(segs[3], ",") ELSE <<>>
        hasVersion == Len(params) = 4
        req == IF hasVersion THEN Tail(params) ELSE params
        Dec10(x) == getPHCPositiveDecimalRegexString(10, x)
        Dec3(x) == getPHCPositiveDecimalRegexString(3, x)
        v == IF hasVersion
            THEN Group(params[1], <<"v", "=">>,
                       Dec10(After(params[1], <<"v", "=">>)))
            ELSE <<<<>>>>
        m == IF Len(req) = 3
            THEN Group(req[1], <<"m", "=">>,
                       Dec10(After(req[1], <<"m", "=">>)))
            ELSE <<>>
        it == IF Len(req) = 3
            THEN Group(req[2], <<"t", "=">>,
                       Dec10(After(req[2], <<"t", "=">>)))
            ELSE <<>>
        p == IF Len(req) = 3
            THEN Group(req[3], <<"p", "=">>,
                       Dec3(After(req[3], <<"p", "=">>)))
            ELSE <<>>
        sh == saltAndHashGroups(SubSeq(segs, 4, Len(segs)))
    IN  IF /\ Len(segs) >= 3 /\ segs[1] = <<>>
           /\ \E i \in 1..Len(Argon2Variants) : Argon2Variants[i] = segs[2]
           /\ v # <<>> /\ m # <<>> /\ it # <<>> /\ p # <<>>
           /\ sh.ok
        THEN <<segs[2], v[1], m[1], it[1], p[1], sh.salt, sh.hash>>
        ELSE NoMatch

\* argon2PHCRx.FindStringSubmatch, revision KeyId: the groups 1..8, or NoMatch
argon2PHCRxKeyId(s) ==
    LET segs == Split(s, "$")
        params == IF Len(segs) >= 3 THEN Split(segs[3], ",") ELSE <<>>
        n == Len(params)
        Dec10(x) == getPHCPositiveDecimalRegexString(10, x)
        Dec3(x) == getPHCPositiveDecimalRegexString(3, x)
        KeyId64(x) == getPHCBase64Regex(0, 11, x)
        Data64(x) == getPHCBase64Regex(0, 43, x)
        m == IF n >= 3
            THEN Group(params[1], <<"m", "=">>,
                       Dec10(After(params[1], <<"m", "=">>)))
            ELSE <<>>
        it == IF n >= 3
            THEN Group(params[2], <<"t", "=">>,
                       Dec10(After(params[2], <<"t", "=">>)))
            ELSE <<>>
        p == IF n >= 3
            THEN Group(params[3], <<"p", "=">>,
                       Dec3(After(params[3], <<"p", "=">>)))
            ELSE <<>>
        keyidName == <<"k", "e", "y", "i", "d", "=">>
        dataName == <<"d", "a", "t", "a", "=">>
        keyidGroup == IF n >= 4
                      THEN Group(params[4], keyidName,
                                 KeyId64(After(params[4], keyidName)))
                      ELSE <<>>
        hasKeyId == keyidGroup # <<>>
        keyID == IF hasKeyId THEN keyidGroup ELSE <<<<>>>>
        dataAt == IF hasKeyId THEN 5 ELSE 4
        data == IF n < dataAt THEN <<<<>>>>
                ELSE IF n = dataAt
                THEN Group(params[n], dataName, Data64(After(params[n], dataName)))
                ELSE <<>>
        sh == saltAndHashGroups(SubSeq(segs, 4, Len(segs)))
    IN  IF /\ Len(segs) >= 3 /\ segs[1] = <<>>
           /\ \E i \in 1..Len(Argon2Variants) : Argon2Variants[i] = segs[2]
           /\ m # <<>> /\ it # <<>> /\ p # <<>> /\ data # <<>>
           /\ sh.ok
        THEN <<segs[2], m[1], it[1], p[1], keyID[1], data[1], sh.salt, sh.hash>>
        ELSE NoMatch

\* a writer without the test of line 83: a hash is written after an empty salt
writeSaltAndHashUnchecked(salt, hash) ==
    [text |-> (IF salt # <<>> THEN <<"$">> \o salt ELSE <<>>)
                  \o (IF hash # <<>> THEN <<"$">> \o hash ELSE <<>>),
     err |-> FALSE]

\* writeSaltAndHash: what is written, and whether an error is returned
writeSaltAndHash(salt, hash) ==
    IF salt = <<>>
    THEN [text |-> <<>>, err |-> hash # <<>>]
    ELSE [text |-> <<"$">> \o salt \o (IF hash # <<>> THEN <<"$">> \o hash ELSE <<>>),
          err |-> FALSE]

\* Argon2PHC.Encode, revision Version: "$%s$v=%d,m=%d,t=%d,p=%d", salt and hash
EncodeVersion(p) ==
    LET w == writeSaltAndHash(p.Salt, p.Hash)
    IN  [text |-> <<"$">> \o p.Variant \o <<"$", "v", "=">> \o FormatDecimal(p.Version)
                  \o <<",", "m", "=">> \o FormatDecimal(p.Memory)
                  \o <<",", "t", "=">> \o FormatDecimal(p.Iterations)
                  \o <<",", "p", "=">> \o FormatDecimal(p.Parallelism)
                  \o w.text,
         err |-> w.err]

\* Argon2PHC.Encode, revision KeyId: keyid and data only when not empty
EncodeKeyId(p) ==
    LET w == writeSaltAndHash(p.Salt, p.Hash)
    IN  [text |-> <<"$">> \o p.Variant \o <<"$", "m", "=">> \o FormatDecimal(p.Memory)
                  \o <<",", "t", "=">> \o FormatDecimal(p.Iterations)
                  \o <<",", "p", "=">> \o FormatDecimal(p.Parallelism)
                  \o (IF p.KeyId # <<>>
                      THEN <<",", "k", "e", "y", "i", "d", "=">> \o p.KeyId ELSE <<>>)
                  \o (IF p.Data # <<>>
                      THEN <<",", "d", "a", "t", "a", "=">> \o p.Data ELSE <<>>)
                  \o w.text,
         err |-> w.err]

\* Argon2PHC.EncodeString: ("", err) on an error of Encode
EncodeString(p) ==
    LET e == IF p.rev = "Version" THEN EncodeVersion(p) ELSE EncodeKeyId(p)
    IN  IF e.err THEN [text |-> <<>>, err |-> TRUE] ELSE [text |-> e.text, err |-> FALSE]

(***************************************************************************)
(* Decimal numbers: package strconv as gophc calls it, the regular          *)
(* expressions of utils.go, and the parsers built from them.  A number is   *)
(* read digit by digit against the largest value allowed, as strconv does,  *)
(* so that no intermediate value leaves the range.                         *)
(***************************************************************************)
\* the int of the build: strconv.IntSize (32 on a 32-bit platform)
intSize == 32

\* 2^(bitSize-1) - 1, the largest value of a signed integer of that width
MaxSigned(bitSize) == (2 ^ (bitSize - 2) - 1) * 2 + 1

\* 2^bitSize - 1, the largest value of an unsigned integer of that width
MaxUnsigned(bitSize) == (2 ^ (bitSize - 1) - 1) * 2 + 1

\* the digits of s read as a number, stopping at over as soon as it is exceeded
RECURSIVE digitsUpTo(_, _, _)
digitsUpTo(s, acc, top) ==
    IF Len(s) = 0 THEN acc
    ELSE IF acc > top THEN acc
    ELSE IF acc > (top - DigitValue(s[1])) \div 10 THEN top + 1
    ELSE digitsUpTo(Tail(s), acc * 10 + DigitValue(s[1]), top)

\* the magnitude of a digit string against the limit max + extra (extra is 0
\* or 1): state "syntax", "range" or "ok", and the value split as hi*10 + lo
magnitude(s, max, extra) ==
    IF Len(s) = 0 \/ \E i \in 1..Len(s) : ~IsDigit(s[i])
    THEN [state |-> "syntax", hi |-> 0, lo |-> 0]
    ELSE LET hi == digitsUpTo(SubSeq(s, 1, Len(s) - 1), 0, max \div 10)
             lo == DigitValue(s[Len(s)])
         IN  IF hi > max \div 10 \/ (hi = max \div 10 /\ lo > (max % 10) + extra)
             THEN [state |-> "range", hi |-> 0, lo |-> 0]
             ELSE [state |-> "ok", hi |-> hi, lo |-> lo]

\* strconv.ParseUint(s, 10, bitSize): no sign is accepted
ParseUint(s, bitSize) ==
    LET un == magnitude(s, MaxUnsigned(bitSize), 0)
    IN  IF un.state = "ok"
        THEN [value |-> un.hi * 10 + un.lo, err |-> FALSE]
        ELSE [value |-> 0, err |-> TRUE]

\* strconv.ParseInt(s, 10, bitSize): an optional '+' or '-', then digits
ParseInt(s, bitSize) ==
    LET neg == Len(s) > 0 /\ s[1] = "-"
        signed == Len(s) > 0 /\ (s[1] = "+" \/ s[1] = "-")
        un == magnitude(IF signed THEN Tail(s) ELSE s, MaxSigned(bitSize),
                        IF neg THEN 1 ELSE 0)
    IN  IF un.state # "ok"
        THEN [value |-> 0, err |-> TRUE]
        ELSE IF neg
        THEN [value |-> (0 - un.hi * 10) - un.lo, err |-> FALSE]
        ELSE [value |-> un.hi * 10 + un.lo, err |-> FALSE]

\* strconv.Atoi: ParseInt(s, 10, 0), the width of int
strconvAtoi(s) == ParseInt(s, intSize)

\* [1-9]\d* at the whole of s
matchesPositive(s) ==
    /\ Len(s) >= 1
    /\ IsDigit(s[1]) /\ s[1] # "0"
    /\ \A i \in 2..Len(s) : IsDigit(s[i])

\* phcDecimalRx: ^(0|-[1-9]\d*|[1-9]\d*)$
phcDecimalRx(s) ==
    \/ s = <<"0">>
    \/ Len(s) >= 1 /\ s[1] = "-" /\ matchesPositive(Tail(s))
    \/ matchesPositive(s)

\* phcPositiveDecimalRx: ^(0|[1-9]\d*)$
phcPositiveDecimalRx(s) == s = <<"0">> \/ matchesPositive(s)

\* mutant: the sign alternative also takes a zero after '-'
ParsePHCDecimalSignedZero(s) ==
    IF phcDecimalRx(s) \/ s = <<"-", "0">>
    THEN strconvAtoi(s)
    ELSE [value |-> 0, err |-> TRUE]

ParsePHCDecimal(s) ==
    IF ~phcDecimalRx(s)
    THEN [value |-> 0, err |-> TRUE]
    ELSE strconvAtoi(s)

\* mutant: the positive parser uses the signed expression
ParsePHCPositiveDecimalSigned(s) ==
    IF ~phcDecimalRx(s)
    THEN [value |-> 0, err |-> TRUE]
    ELSE strconvAtoi(s)

ParsePHCPositiveDecimal(s) ==
    IF ~phcPositiveDecimalRx(s)
    THEN [value |-> 0, err |-> TRUE]
    ELSE strconvAtoi(s)

\* decodeDecimalStringStrict
decodeDecimalStringStrict(s, bitSize) ==
    IF HasPrefix(s, <<"0">>)
    THEN IF Len(s) > 1 THEN [value |-> -1, err |-> TRUE] ELSE [value |-> 0, err |-> FALSE]
    ELSE IF HasPrefix(s, <<"-">>)
    THEN IF Len(s) = 1 THEN [value |-> -1, err |-> TRUE]
         ELSE IF HasPrefix(Tail(s), <<"0">>) THEN [value |-> -1, err |-> TRUE]
         ELSE ParseInt(s, bitSize)
    ELSE ParseInt(s, bitSize)

DecodeDecimalString(s, strict, bitSize) ==
    IF strict THEN decodeDecimalStringStrict(s, bitSize) ELSE ParseInt(s, bitSize)

\* decodeUnsignedStringStrict
decodeUnsignedStringStrict(s, bitSize) ==
    IF HasPrefix(s, <<"0">>)
    THEN IF Len(s) > 1 THEN [value |-> 0, err |-> TRUE] ELSE [value |-> 0, err |-> FALSE]
    ELSE IF HasPrefix(s, <<"-">>)
    THEN IF Len(s) = 1 THEN [value |-> 0, err |-> TRUE]
         ELSE IF HasPrefix(Tail(s), <<"0">>) THEN [value |-> 0, err |-> TRUE]
         ELSE ParseUint(s, bitSize)
    ELSE ParseUint(s, bitSize)

DecodeUnsignedString(s, strict, bitSize) ==
    IF strict THEN decodeUnsignedStringStrict(s, bitSize) ELSE ParseUint(s, bitSize)

(***************************************************************************)
(* DecodeArgon2PHC and ValidateParameters of argon2.go.  The numbers are   *)
(* converted with strconv.Atoi, whose range error is returned.  A version   *)
(* is at most ten digits long and never leaves the range of ParseUint(64).  *)
(***************************************************************************)
\* DecodeArgon2PHC, revision Version, after the match and the version: the
\* conversions of memory, iterations and parallelism and the result
argon2PHCVersionFromMatch(match, version) ==
    LET memory == strconvAtoi(match[3])
        iterations == strconvAtoi(match[4])
        parallelism == strconvAtoi(match[5])
    IN  IF memory.err \/ iterations.err \/ parallelism.err
        THEN [phc |-> NilArgon2PHC, err |-> TRUE]
        ELSE [phc |-> [rev |-> "Version",
                       Variant |-> match[1],
                       Version |-> version,
                       Memory |-> memory.value,
                       Iterations |-> iterations.value,
                       Parallelism |-> parallelism.value,
                       Salt |-> match[6],
                       Hash |-> match[7]],
              err |-> FALSE]

\* DecodeArgon2PHC, revision KeyId, after the match and the conversions
argon2PHCKeyIdFromMatch(match, memory, iterations, parallelism) ==
    IF memory.err \/ iterations.err \/ parallelism.err
    THEN [phc |-> NilArgon2PHC, err |-> TRUE]
    ELSE [phc |-> [rev |-> "KeyId",
                   Variant |-> match[1],
                   Memory |-> memory.value,
                   Iterations |-> iterations.value,
                   Parallelism |-> parallelism.value,
                   KeyId |-> match[5],
                   Data |-> match[6],
                   Salt |-> match[7],
                   Hash |-> match[8]],
          err |-> FALSE]

\* mutant: a missing version is not replaced by the default, it is 0
DecodeArgon2PHCNoDefault(s) ==
    LET match == argon2PHCRxVersion(s)
    IN  IF match = NoMatch
        THEN [phc |-> NilArgon2PHC, err |-> TRUE]
        ELSE argon2PHCVersionFromMatch(match, Atoi(match[2]))

\* DecodeArgon2PHC, revision Version
DecodeArgon2PHCVersion(s) ==
    LET match == argon2PHCRxVersion(s)
    IN  IF match = NoMatch
        THEN [phc |-> NilArgon2PHC, err |-> TRUE]
        ELSE argon2PHCVersionFromMatch(
                 match, IF match[2] = <<>> THEN defaultVersion ELSE Atoi(match[2]))

\* DecodeArgon2PHC, revision KeyId
DecodeArgon2PHCKeyId(s) ==
    LET match == argon2PHCRxKeyId(s)
    IN  IF match = NoMatch
        THEN [phc |-> NilArgon2PHC, err |-> TRUE]
        ELSE argon2PHCKeyIdFromMatch(match, strconvAtoi(match[2]),
                                     strconvAtoi(match[3]), strconvAtoi(match[4]))

(***************************************************************************)
(* scrypt.go, in two revisions: DecodeScryptPHC matches a regular           *)
(* expression, DecodeScrypt runs ScryptPHCSchema.Decode and converts the    *)
(* parameters.  Argon2Schema is the schema of the same kind for Argon2.    *)
(***************************************************************************)
\* base64String: [A-Za-z0-9+/]+
base64String(s) == Len(s) >= 1 /\ \A i \in 1..Len(s) : decodeMap(s[i]) # 255

NilScryptPHC == [rev |-> "nil"]

\* scryptPHCRx.FindStringSubmatch: the groups 1..5, or NoMatch.  The
\* expression is anchored and '$' and ',' are in none of its classes.
scryptPHCRx(s) ==
    LET segs == Split(s, "$")
        params == IF Len(segs) >= 3 THEN Split(segs[3], ",") ELSE <<>>
        ln == IF Len(params) = 3
              THEN Group(params[1], <<"l", "n", "=">>,
                         phcPositiveDecimalRx(After(params[1], <<"l", "n", "=">>)))
              ELSE <<>>
        r == IF Len(params) = 3
             THEN Group(params[2], <<"r", "=">>,
                        phcPositiveDecimalRx(After(params[2], <<"r", "=">>)))
             ELSE <<>>
        p == IF Len(params) = 3
             THEN Group(params[3], <<"p", "=">>,
                        phcPositiveDecimalRx(After(params[3], <<"p", "=">>)))
             ELSE <<>>
        rest == SubSeq(segs, 4, Len(segs))
    IN  IF /\ Len(segs) >= 3 /\ segs[1] = <<>>
           /\ segs[2] = <<"s", "c", "r", "y", "p", "t">>
           /\ ln # <<>> /\ r # <<>> /\ p # <<>>
           /\ Len(rest) <= 2
           /\ \A i \in 1..Len(rest) : base64String(rest[i])
        THEN <<ln[1], r[1], p[1],
               IF Len(rest) >= 1 THEN rest[1] ELSE <<>>,
               IF Len(rest) >= 2 THEN rest[2] ELSE <<>> >>
        ELSE NoMatch

\* DecodeScryptPHC: the groups converted with strconv.Atoi
DecodeScryptPHC(s) ==
    LET match == scryptPHCRx(s)
    IN  IF match = NoMatch
        THEN [phc |-> NilScryptPHC, err |-> TRUE]
        ELSE LET cost == strconvAtoi(match[1])
                 blockSize == strconvAtoi(match[2])
                 parallelism == strconvAtoi(match[3])
             IN  IF cost.err \/ blockSize.err \/ parallelism.err
                 THEN [phc |-> NilScryptPHC, err |-> TRUE]
                 ELSE [phc |-> [rev |-> "regex",
                                Cost |-> cost.value,
                                BlockSize |-> blockSize.value,
                                Parallelism |-> parallelism.value,
                                Salt |-> match[4],
                                Hash |-> match[5]],
                       err |-> FALSE]

ScryptPHCSchema ==
    [FunctionNames |-> << <<"s", "c", "r", "y", "p", "t">> >>,
     ParameterDescriptions |->
         << [Name |-> <<"l", "n">>, Default |-> <<>>, Optional |-> FALSE,
             ValidateValue |-> "NoValueValidator"],
            [Name |-> <<"r">>, Default |-> <<>>, Optional |-> FALSE,
             ValidateValue |-> "NoValueValidator"],
            [Name |-> <<"p">>, Default |-> <<>>, Optional |-> FALSE,
             ValidateValue |-> "NoValueValidator"] >>,
     Decoder |-> DefaultBase64]

\* mutant: Cost is the logarithm ln itself, not 2^ln
scryptFromStringParamsCostIsLn(lnParam, rParam, pParam, salt, hash, saltString, hashString) ==
    LET ln == strconvAtoi(lnParam.Value)
        r == strconvAtoi(rParam.Value)
        p == strconvAtoi(pParam.Value)
    IN  IF ln.err
        THEN [phc |-> NilScryptPHC,
              err |-> wrapParameterValueErrorToPHCError("can't parse as integer",
                                                        lnParam.Name)]
        ELSE IF ln.value <= 0
        THEN [phc |-> NilScryptPHC,
              err |-> wrapParameterValueErrorToPHCError("must be positive", lnParam.Name)]
        ELSE IF ln.value > intSize - 2
        THEN [phc |-> NilScryptPHC,
              err |-> wrapParameterValueErrorToPHCError("parameter overflows int",
                                                        lnParam.Name)]
        ELSE IF r.err
        THEN [phc |-> NilScryptPHC,
              err |-> wrapParameterValueErrorToPHCError("can't parse as integer",
                                                        rParam.Name)]
        ELSE IF p.err
        THEN [phc |-> NilScryptPHC,
              err |-> wrapParameterValueErrorToPHCError("can't parse as integer",
                                                        pParam.Name)]
        ELSE [phc |-> [rev |-> "schema",
                       Cost |-> ln.value,
                       BlockSize |-> r.value,
                       Parallelism |-> p.value,
                       Salt |-> salt,
                       SaltString |-> saltString,
                       Hash |-> hash,
                       HashString |-> hashString],
              err |-> NilError]

\* scryptFromStringParams: ln, r and p converted with strconv.Atoi, the cost
\* is 2^ln.  A shift by more than the width of int gives 0 in Go, so that the
\* test of cost <= 0 and the test of ln against IntSize-2 reject the same ln.
scryptFromStringParams(lnParam, rParam, pParam, salt, hash, saltString, hashString) ==
    LET ln == strconvAtoi(lnParam.Value)
        r == strconvAtoi(rParam.Value)
        p == strconvAtoi(pParam.Value)
    IN  IF ln.err
        THEN [phc |-> NilScryptPHC,
              err |-> wrapParameterValueErrorToPHCError("can't parse as integer",
                                                        lnParam.Name)]
        ELSE IF ln.value <= 0
        THEN [phc |-> NilScryptPHC,
              err |-> wrapParameterValueErrorToPHCError("must be positive", lnParam.Name)]
        ELSE IF ln.value > intSize - 2
        THEN [phc |-> NilScryptPHC,
              err |-> wrapParameterValueErrorToPHCError("parameter overflows int",
                                                        lnParam.Name)]
        ELSE IF r.err
        THEN [phc |-> NilScryptPHC,
              err |-> wrapParameterValueErrorToPHCError("can't parse as integer",
                                                        rParam.Name)]
        ELSE IF p.err
        THEN [phc |-> NilScryptPHC,
              err |-> wrapParameterValueErrorToPHCError("can't parse as integer",
                                                        pParam.Name)]
        ELSE [phc |-> [rev |-> "schema",
                       Cost |-> 2 ^ ln.value,
                       BlockSize |-> r.value,
                       Parallelism |-> p.value,
                       Salt |-> salt,
                       SaltString |-> saltString,
                       Hash |-> hash,
                       HashString |-> hashString],
              err |-> NilError]

\* nothing returned by DecodeScrypt yet
NilDecoded == [phc |-> NilScryptPHC, err |-> NilError]

\* DecodeScrypt, after its call of ScryptPHCSchema.Decode has returned
DecodeScrypt ==
    /\ pc = "done"
    /\ schema = ScryptPHCSchema
    /\ pc' = "returned"
    /\ decoded' =
           IF err # NilError
           THEN [phc |-> NilScryptPHC, err |-> err]
           ELSE IF Len(res.Parameters) # 3
           THEN [phc |-> NilScryptPHC,
                 err |-> [kind |-> "error",
                          Message |-> <<Lit("internal error: expected exactly 3 variables")>>,
                          WrappedErr |-> "nil"]]
           ELSE scryptFromStringParams(res.Parameters[1], res.Parameters[2],
                                       res.Parameters[3], res.Salt, res.Hash,
                                       res.SaltString, res.HashString)
    /\ UNCHANGED <<schema, input, split, parsedParameters, res, err>>
    /\ UNCHANGED <<src, op, out, phc, raw, encoded, waiting>>

defaultArgon2Version == 16

Argon2Schema ==
    [FunctionNames |-> Argon2Variants,
     ParameterDescriptions |->
         << [Name |-> <<"v">>, Default |-> FormatDecimal(defaultArgon2Version),
             Optional |-> TRUE, ValidateValue |-> "NoValueValidator"],
            [Name |-> <<"m">>, Default |-> <<>>, Optional |-> FALSE,
             ValidateValue |-> "NoValueValidator"],
            [Name |-> <<"t">>, Default |-> <<>>, Optional |-> FALSE,
             ValidateValue |-> "NoValueValidator"],
            [Name |-> <<"p">>, Default |-> <<>>, Optional |-> FALSE,
             ValidateValue |-> "NoValueValidator"] >>,
     Decoder |-> DefaultBase64]

(***************************************************************************)
(* The schemas and inputs Decode is run on.                                *)
(***************************************************************************)
NoCall ==
    /\ src = <<>>
    /\ op = "none"
    /\ out = [bytes |-> <<>>, err |-> FALSE]
    /\ phc = NilArgon2PHC
    /\ raw = <<>>
    /\ encoded = <<>>
    /\ decoded = NilDecoded
    /\ waiting = NoWaiting

\* Descriptions over three names, optional or not, that accept every value
MatchDescriptions ==
    [Name : {<<"a">>, <<"b">>, <<"c">>}, Default : {<<"7">>},
     Optional : BOOLEAN, ValidateValue : {"NoValueValidator"}]

MatchSchemas ==
    {[FunctionNames |-> << <<"f">> >>, ParameterDescriptions |-> d,
      Decoder |-> DefaultBase64] :
        d \in SeqsUpTo(MatchDescriptions, MaxDescriptions)}

\* Parameter entries: three known names, an unknown one, an empty entry
MatchEntries ==
    {<<"a", "=", "1">>, <<"b", "=", "2">>, <<"c", "=", "3">>, <<"d", "=", "4">>, <<>>}

MatchInputs ==
    {<<"$", "f">>} \cup
    {<<"$", "f", "$">> \o Join(l, <<",">>) :
        l \in SeqsUpTo(MatchEntries, MaxParsed) \ {<<>>}}

\* Three schemas for the inputs that differ in their segments
SegmentSchemas ==
    {[FunctionNames |-> << <<"f">> >>,
      ParameterDescriptions |->
          << [Name |-> <<"a">>, Default |-> <<"7">>, Optional |-> FALSE,
              ValidateValue |-> "nil"] >>,
      Decoder |-> DefaultBase64],
     [FunctionNames |-> << <<"f">>, <<"g">> >>,
      ParameterDescriptions |->
          << [Name |-> <<"a">>, Default |-> <<"7">>, Optional |-> TRUE,
              ValidateValue |-> "NoValueValidator"],
             [Name |-> <<"b">>, Default |-> <<"8">>, Optional |-> TRUE,
              ValidateValue |-> "nil"] >>,
      Decoder |-> NewDefaultBase64Handler(FALSE)],
     [FunctionNames |-> << <<"f">> >>,
      ParameterDescriptions |-> <<>>,
      Decoder |-> DefaultBase64]}

FirstSegments == {<<"f">>, <<"g">>, <<"h">>, <<>>}

\* An empty segment, parameter lists (a value with '=', an entry without '='),
\* base64 of three bytes, base64 whose trailing bits are not zero
LaterSegments ==
    {<<>>, <<"a", "=", "1">>, <<"a", "=", "=">>, <<"a", "=", "1", ",", "b">>,
     <<"A", "A", "A", "A">>, <<"A", "R">>}

SegmentInputs ==
    {<<"$">> \o Join(<<first>> \o later, <<"$">>) :
        first \in FirstSegments, later \in SeqsUpTo(LaterSegments, MaxSegments)}
    \cup
    {Join(<<first>> \o later, <<"$">>) :
        first \in FirstSegments, later \in SeqsUpTo(LaterSegments, 1)}

\* Parameter lists in which a name is followed by no value
EmptyValueInputs ==
    {<<"$", "f", "$">> \o l \o rest :
        l \in {<<"a", "=">>, <<"b", "=">>, <<"a", "=", ",", "b", "=">>,
               <<"a", "=", "1", ",", "b", "=">>, <<"a", "=", ",", "b", "=", "2">>},
        rest \in {<<>>, <<"$", "A", "A", "A", "A">>}}

\* Salt and hash segments with a line break among the base64 characters
LineBreakInputs ==
    {<<"$", "f", "$", "a", "=", "1", "$">> \o salt \o hash :
        salt \in {<<"A", "A", "A", "A">>, <<"A", "A", "\n", "A", "A">>,
                  <<"A", "A", "A", "A", "\r">>, <<"\n">>},
        hash \in {<<>>, <<"$", "A", "A", "A", "A">>, <<"$", "A", "A", "A", "A", "\n">>}}

Init ==
    /\ \/ schema \in MatchSchemas /\ input \in MatchInputs
       \/ schema \in SegmentSchemas /\ input \in SegmentInputs
       \/ schema \in SegmentSchemas /\ input \in EmptyValueInputs
       \/ schema \in SegmentSchemas /\ input \in LineBreakInputs
    /\ pc = "start"
    /\ split = <<>>
    /\ parsedParameters = <<>>
    /\ res = ZeroInstance
    /\ err = NilError
    /\ NoCall

Next ==
    \/ DecodeSplit
    \/ DecodeFunctionName
    \/ DecodeParameters
    \/ DecodeMatch
    \/ DecodeSalt
    \/ DecodeHash
    \/ DecodeEnd

Spec == Init /\ [][Next]_vars

(***************************************************************************)
(* The base64 functions called on their own.                               *)
(***************************************************************************)
NoDecode ==
    /\ schema = [FunctionNames |-> <<>>, ParameterDescriptions |-> <<>>,
                 Decoder |-> DefaultBase64]
    /\ input = <<>>
    /\ pc = "idle"
    /\ split = <<>>
    /\ parsedParameters = <<>>
    /\ res = ZeroInstance
    /\ err = NilError

\* alphabet characters, a line break, and characters outside the alphabet
Base64Chars == {"A", "E", "R", "/", "\n", "="}

\* strings of the decoding tests: 10 and 11 characters, trailing bits set or not
Base64TestSources ==
    {<<"H", "j", "5", "+", "d", "s", "K", "0", "Z", "R">>,
     <<"H", "j", "5", "+", "d", "s", "K", "0", "Z", "Q">>,
     <<"H", "j", "5", "+", "d", "s", "K", "0", "Z", "Q", "B">>,
     <<"H", "j", "5", "+", "d", "s", "K", "0", "Z", "Q", "A">>}

Base64Sources == SeqsUpTo(Base64Chars, MaxBase64Len) \cup Base64TestSources

ByteValues == {0, 1, 101, 255}

ByteSources == SeqsUpTo(ByteValues, MaxBytesLen)

\* either a string to decode or bytes to encode
InitBase64 ==
    /\ NoDecode
    /\ \/ src \in Base64Sources /\ raw = <<>>
       \/ src = <<>> /\ raw \in ByteSources
    /\ op = "none"
    /\ out = [bytes |-> <<>>, err |-> FALSE]
    /\ phc = NilArgon2PHC
    /\ encoded = <<>>
    /\ decoded = NilDecoded
    /\ waiting = NoWaiting

CallBase64Decode ==
    /\ op = "none"
    /\ op' = "Base64Decode"
    /\ out' = Base64Decode(src)
    /\ UNCHANGED <<src, phc, raw, encoded, decoded, waiting>>
    /\ UNCHANGED decodeVars

CallBase64DecodeNotStrict ==
    /\ op = "none"
    /\ op' = "Base64DecodeNotStrict"
    /\ out' = Base64DecodeNotStrict(src)
    /\ UNCHANGED <<src, phc, raw, encoded, decoded, waiting>>
    /\ UNCHANGED decodeVars

CallBase64Encode ==
    /\ op = "none"
    /\ op' = "Base64Encode"
    /\ encoded' = Base64Encode(raw)
    /\ UNCHANGED <<src, phc, raw, out, decoded, waiting>>
    /\ UNCHANGED decodeVars

\* Base64Decode applied to what Base64Encode returned
CallBase64DecodeEncoded ==
    /\ op = "Base64Encode"
    /\ op' = "Base64Decode(Base64Encode)"
    /\ out' = Base64Decode(encoded)
    /\ UNCHANGED <<src, phc, raw, encoded, decoded, waiting>>
    /\ UNCHANGED decodeVars

\* Base64Encode applied to what Base64Decode returned without an error
CallBase64EncodeDecoded ==
    /\ op = "Base64Decode"
    /\ ~out.err
    /\ op' = "Base64Encode(Base64Decode)"
    /\ encoded' = Base64Encode(out.bytes)
    /\ UNCHANGED <<src, phc, raw, out, decoded, waiting>>
    /\ UNCHANGED decodeVars

NextBase64 ==
    \/ CallBase64Decode
    \/ CallBase64DecodeNotStrict
    \/ CallBase64Encode
    \/ CallBase64DecodeEncoded
    \/ CallBase64EncodeDecoded

SpecBase64 == InitBase64 /\ [][NextBase64]_vars

(***************************************************************************)
(* DecodeArgon2PHC and EncodeString called one after the other.            *)
(***************************************************************************)
Repeat(c, n) == [i \in 1..n |-> c]

Argon2Names ==
    {<<"a", "r", "g", "o", "n", "2", "i">>,
     <<"a", "r", "g", "o", "n", "2", "i", "d">>,
     <<"a", "r", "g", "o", "n", "2", "x">>}

Argon2VersionParts ==
    {<<>>, <<"v", "=", "1", "9", ",">>, <<"v", "=", "1", "6", ",">>}

Argon2MemoryParts ==
    {<<"m", "=", "1", "2", "0">>, <<"m", "=", "0", "1", "2", "0">>}

Argon2ParallelismParts ==
    {<<"p", "=", "2">>, <<"p", "=", "2", "5", "5">>}

Argon2KeyIdParts ==
    {<<>>, <<",", "k", "e", "y", "i", "d", "=", "H", "j", "5", "+">>,
     <<",", "k", "e", "y", "i", "d", "=">>}

Argon2DataParts ==
    {<<>>, <<",", "d", "a", "t", "a", "=", "s", "R", "l", "H">>}

\* no salt, a salt of the shortest and of the longest length, one too short
Argon2SaltParts ==
    {<<>>,
     <<"$", "/", "L", "t", "F", "j", "H", "5", "r", "V", "L", "8">>,
     <<"$">> \o Repeat("B", 64),
     <<"$", "/", "L", "t", "F">>}

\* no hash, a hash of the shortest length, one longer than any salt
Argon2HashParts ==
    {<<>>, <<"$">> \o Repeat("i", 16), <<"$">> \o Repeat("i", 65)}

Argon2Inputs ==
    {<<"$">> \o name \o <<"$">> \o v \o m \o <<",", "t", "=", "5", "0", "0", "0", ",">>
         \o p \o k \o d \o s \o h :
       name \in Argon2Names, v \in Argon2VersionParts, m \in Argon2MemoryParts,
       p \in Argon2ParallelismParts, k \in Argon2KeyIdParts, d \in Argon2DataParts,
       s \in Argon2SaltParts, h \in Argon2HashParts}

InitArgon2 ==
    /\ NoDecode
    /\ src \in Argon2Inputs
    /\ op = "none"
    /\ out = [text |-> <<>>, err |-> FALSE]
    /\ phc = NilArgon2PHC
    /\ raw = <<>>
    /\ encoded = <<>>
    /\ decoded = NilDecoded
    /\ waiting = NoWaiting

CallDecodeArgon2PHCVersion ==
    /\ op = "none"
    /\ op' = "DecodeArgon2PHC"
    /\ LET decodedPHC == DecodeArgon2PHCVersion(src)
       IN  /\ phc' = decodedPHC.phc
           /\ out' = [text |-> <<>>, err |-> decodedPHC.err]
    /\ UNCHANGED <<src, raw, encoded, decoded, waiting>>
    /\ UNCHANGED decodeVars

CallDecodeArgon2PHCKeyId ==
    /\ op = "none"
    /\ op' = "DecodeArgon2PHC"
    /\ LET decodedPHC == DecodeArgon2PHCKeyId(src)
       IN  /\ phc' = decodedPHC.phc
           /\ out' = [text |-> <<>>, err |-> decodedPHC.err]
    /\ UNCHANGED <<src, raw, encoded, decoded, waiting>>
    /\ UNCHANGED decodeVars

CallEncodeString ==
    /\ op = "DecodeArgon2PHC"
    /\ phc # NilArgon2PHC
    /\ op' = "EncodeString"
    /\ out' = EncodeString(phc)
    /\ UNCHANGED <<src, phc, raw, encoded, decoded, waiting>>
    /\ UNCHANGED decodeVars

NextArgon2 ==
    \/ CallDecodeArgon2PHCVersion
    \/ CallDecodeArgon2PHCKeyId
    \/ CallEncodeString

SpecArgon2 == InitArgon2 /\ [][NextArgon2]_vars

(***************************************************************************)
(* The named schemas: Argon2Schema.Decode and DecodeScrypt next to the     *)
(* decoders that match a regular expression, on the same input.            *)
(***************************************************************************)
\* the strings of katGood, but for the one with t=4294967295: a value of 2^32-1
\* does not fit the 32-bit integers of TLC
katGood ==
    {<<"$", "a", "r", "g", "o", "n", "2", "i", "$", "m", "=", "1", "2", "0", ",",
       "t", "=", "5", "0", "0", "0", ",", "p", "=", "2">>,
     <<"$", "a", "r", "g", "o", "n", "2", "i", "$", "m", "=", "2", "0", "4", "0",
       ",", "t", "=", "5", "0", "0", "0", ",", "p", "=", "2", "5", "5">>,
     <<"$", "a", "r", "g", "o", "n", "2", "i", "$", "m", "=", "1", "2", "0", ",",
       "t", "=", "5", "0", "0", "0", ",", "p", "=", "2", ",", "k", "e", "y", "i",
       "d", "=", "H", "j", "5", "+", "d", "s", "K", "0">>,
     <<"$", "a", "r", "g", "o", "n", "2", "i", "$", "m", "=", "1", "2", "0", ",",
       "t", "=", "5", "0", "0", "0", ",", "p", "=", "2", ",", "k", "e", "y", "i",
       "d", "=", "H", "j", "5", "+", "d", "s", "K", "0", "Z", "Q">>,
     <<"$", "a", "r", "g", "o", "n", "2", "i", "$", "m", "=", "1", "2", "0", ",",
       "t", "=", "5", "0", "0", "0", ",", "p", "=", "2", ",", "k", "e", "y", "i",
       "d", "=", "H", "j", "5", "+", "d", "s", "K", "0", "Z", "Q", "A">>,
     <<"$", "a", "r", "g", "o", "n", "2", "i", "$", "m", "=", "1", "2", "0", ",",
       "t", "=", "5", "0", "0", "0", ",", "p", "=", "2", ",", "d", "a", "t", "a",
       "=", "s", "R", "l", "H", "h", "R", "m", "K", "U", "G", "z", "d", "O", "m",
       "X", "n", "0", "1", "X", "m", "X", "y", "g", "d", "5", "K", "c">>,
     <<"$", "a", "r", "g", "o", "n", "2", "i", "$", "m", "=", "1", "2", "0", ",",
       "t", "=", "5", "0", "0", "0", ",", "p", "=", "2", ",", "k", "e", "y", "i",
       "d", "=", "H", "j", "5", "+", "d", "s", "K", "0", ",", "d", "a", "t", "a",
       "=", "s", "R", "l", "H", "h", "R", "m", "K", "U", "G", "z", "d", "O", "m",
       "X", "n", "0", "1", "X", "m", "X", "y", "g", "d", "5", "K", "c">>,
     <<"$", "a", "r", "g", "o", "n", "2", "i", "$", "m", "=", "1", "2", "0", ",",
       "t", "=", "5", "0", "0", "0", ",", "p", "=", "2", "$", "/", "L", "t", "F",
       "j", "H", "5", "r", "V", "L", "8">>,
     <<"$", "a", "r", "g", "o", "n", "2", "i", "$", "m", "=", "1", "2", "0", ",",
       "t", "=", "5", "0", "0", "0", ",", "p", "=", "2", "$", "4", "f", "X", "X",
       "G", "0", "s", "p", "B", "9", "2", "W", "P", "B", "1", "N", "i", "t", "T",
       "8", "/", "O", "H", "0", "V", "K", "I">>,
     <<"$", "a", "r", "g", "o", "n", "2", "i", "$", "m", "=", "1", "2", "0", ",",
       "t", "=", "5", "0", "0", "0", ",", "p", "=", "2", "$", "B", "w", "U", "g",
       "J", "H", "H", "Q", "a", "y", "n", "E", "+", "a", "4", "n", "Z", "r", "Y",
       "R", "z", "O", "l", "l", "G", "S", "j", "j", "x", "u", "x", "N", "X", "x",
       "y", "N", "R", "U", "t", "I", "6", "D", "l", "w", "/", "z", "l", "b", "t",
       "6", "P", "z", "O", "L", "8", "O", "n", "f", "q", "s", "6", "T", "c", "G">>,
     <<"$", "a", "r", "g", "o", "n", "2", "i", "$", "m", "=", "1", "2", "0", ",",
       "t", "=", "5", "0", "0", "0", ",", "p", "=", "2", ",", "k", "e", "y", "i",
       "d", "=", "H", "j", "5", "+", "d", "s", "K", "0", "$", "4", "f", "X", "X",
       "G", "0", "s", "p", "B", "9", "2", "W", "P", "B", "1", "N", "i", "t", "T",
       "8", "/", "O", "H", "0", "V", "K", "I">>,
     <<"$", "a", "r", "g", "o", "n", "2", "i", "$", "m", "=", "1", "2", "0", ",",
       "t", "=", "5", "0", "0", "0", ",", "p", "=", "2", ",", "d", "a", "t", "a",
       "=", "s", "R", "l", "H", "h", "R", "m", "K", "U", "G", "z", "d", "O", "m",
       "X", "n", "0", "1", "X", "m", "X", "y", "g", "d", "5", "K", "c", "$", "4",
       "f", "X", "X", "G", "0", "s", "p", "B", "9", "2", "W", "P", "B", "1", "N",
       "i", "t", "T", "8", "/", "O", "H", "0", "V", "K", "I">>,
     <<"$", "a", "r", "g", "o", "n", "2", "i", "$", "m", "=", "1", "2", "0", ",",
       "t", "=", "5", "0", "0", "0", ",", "p", "=", "2", ",", "k", "e", "y", "i",
       "d", "=", "H", "j", "5", "+", "d", "s", "K", "0", ",", "d", "a", "t", "a",
       "=", "s", "R", "l", "H", "h", "R", "m", "K", "U", "G", "z", "d", "O", "m",
       "X", "n", "0", "1", "X", "m", "X", "y", "g", "d", "5", "K", "c", "$", "4",
       "f", "X", "X", "G", "0", "s", "p", "B", "9", "2", "W", "P", "B", "1", "N",
       "i", "t", "T", "8", "/", "O", "H", "0", "V", "K", "I">>,
     <<"$", "a", "r", "g", "o", "n", "2", "i", "$", "m", "=", "1", "2", "0", ",",
       "t", "=", "5", "0", "0", "0", ",", "p", "=", "2", "$", "4", "f", "X", "X",
       "G", "0", "s", "p", "B", "9", "2", "W", "P", "B", "1", "N", "i", "t", "T",
       "8", "/", "O", "H", "0", "V", "K", "I", "$", "i", "P", "B", "V", "u", "O",
       "R", "E", "C", "m", "5", "b", "i", "U", "s", "j", "q", "3", "3", "h", "n",
       "9", "/", "7", "B", "K", "q", "y", "9", "a", "P", "W", "K", "h", "F", "f",
       "K", "2", "h", "a", "E", "s", "M">>,
     <<"$", "a", "r", "g", "o", "n", "2", "i", "$", "m", "=", "1", "2", "0", ",",
       "t", "=", "5", "0", "0", "0", ",", "p", "=", "2", ",", "k", "e", "y", "i",
       "d", "=", "H", "j", "5", "+", "d", "s", "K", "0", "$", "4", "f", "X", "X",
       "G", "0", "s", "p", "B", "9", "2", "W", "P", "B", "1", "N", "i", "t", "T",
       "8", "/", "O", "H", "0", "V", "K", "I", "$", "i", "P", "B", "V", "u", "O",
       "R", "E", "C", "m", "5", "b", "i", "U", "s", "j", "q", "3", "3", "h", "n",
       "9", "/", "7", "B", "K", "q", "y", "9", "a", "P", "W", "K", "h", "F", "f",
       "K", "2", "h", "a", "E", "s", "M">>,
     <<"$", "a", "r", "g", "o", "n", "2", "i", "$", "m", "=", "1", "2", "0", ",",
       "t", "=", "5", "0", "0", "0", ",", "p", "=", "2", ",", "d", "a", "t", "a",
       "=", "s", "R", "l", "H", "h", "R", "m", "K", "U", "G", "z", "d", "O", "m",
       "X", "n", "0", "1", "X", "m", "X", "y", "g", "d", "5", "K", "c", "$", "4",
       "f", "X", "X", "G", "0", "s", "p", "B", "9", "2", "W", "P", "B", "1", "N",
       "i", "t", "T", "8", "/", "O", "H", "0", "V", "K", "I", "$", "i", "P", "B",
       "V", "u", "O", "R", "E", "C", "m", "5", "b", "i", "U", "s", "j", "q", "3",
       "3", "h", "n", "9", "/", "7", "B", "K", "q", "y", "9", "a", "P", "W", "K",
       "h", "F", "f", "K", "2", "h", "a", "E", "s", "M">>,
     <<"$", "a", "r", "g", "o", "n", "2", "i", "$", "m", "=", "1", "2", "0", ",",
       "t", "=", "5", "0", "0", "0", ",", "p", "=", "2", ",", "k", "e", "y", "i",
       "d", "=", "H", "j", "5", "+", "d", "s", "K", "0", ",", "d", "a", "t", "a",
       "=", "s", "R", "l", "H", "h", "R", "m", "K", "U", "G", "z", "d", "O", "m",
       "X", "n", "0", "1", "X", "m", "X", "y", "g", "d", "5", "K", "c", "$", "4",
       "f", "X", "X", "G", "0", "s", "p", "B", "9", "2", "W", "P", "B", "1", "N",
       "i", "t", "T", "8", "/", "O", "H", "0", "V", "K", "I", "$", "i", "P", "B",
       "V", "u", "O", "R", "E", "C", "m", "5", "b", "i", "U", "s", "j", "q", "3",
       "3", "h", "n", "9", "/", "7", "B", "K", "q", "y", "9", "a", "P", "W", "K",
       "h", "F", "f", "K", "2", "h", "a", "E", "s", "M">>,
     <<"$", "a", "r", "g", "o", "n", "2", "i", "$", "m", "=", "1", "2", "0", ",",
       "t", "=", "5", "0", "0", "0", ",", "p", "=", "2", ",", "k", "e", "y", "i",
       "d", "=", "H", "j", "5", "+", "d", "s", "K", "0", ",", "d", "a", "t", "a",
       "=", "s", "R", "l", "H", "h", "R", "m", "K", "U", "G", "z", "d", "O", "m",
       "X", "n", "0", "1", "X", "m", "X", "y", "g", "d", "5", "K", "c", "$", "i",
       "H", "S", "D", "P", "H", "z", "U", "h", "P", "z", "K", "7", "r", "C", "c",
       "J", "g", "O", "F", "f", "g", "$", "E", "k", "C", "W", "X", "6", "p", "S",
       "T", "q", "W", "r", "u", "i", "R", "0">>,
     <<"$", "a", "r", "g", "o", "n", "2", "i", "$", "m", "=", "1", "2", "0", ",",
       "t", "=", "5", "0", "0", "0", ",", "p", "=", "2", ",", "k", "e", "y", "i",
       "d", "=", "H", "j", "5", "+", "d", "s", "K", "0", ",", "d", "a", "t", "a",
       "=", "s", "R", "l", "H", "h", "R", "m", "K", "U", "G", "z", "d", "O", "m",
       "X", "n", "0", "1", "X", "m", "X", "y", "g", "d", "5", "K", "c", "$", "i",
       "H", "S", "D", "P", "H", "z", "U", "h", "P", "z", "K", "7", "r", "C", "c",
       "J", "g", "O", "F", "f", "g", "$", "J", "4", "m", "o", "a", "2", "M", "M",
       "0", "/", "6", "u", "f", "3", "H", "b", "Y", "2", "T", "f", "5", "F", "u",
       "x", "8", "J", "I", "B", "T", "w", "I", "h", "m", "h", "x", "G", "R", "b",
       "s", "Y", "1", "4", "q", "h", "T", "l", "t", "Q", "t", "+", "V", "w", "3",
       "b", "7", "t", "c", "J", "N", "E", "b", "k", "8", "i", "u", "m", "8", "A",
       "Q", "f", "Z", "e", "D", "4", "t", "a", "b", "C", "n", "N", "q", "f", "k",
       "D", "1", "g">>}

\* the inputs of TestArgon2Decode
Argon2DecodeTests ==
    {<<"$", "a", "r", "g", "o", "n", "2", "i", "$", "v", "=", "1", "9", ",", "m",
       "=", "1", "2", "0", ",", "t", "=", "5", "0", "0", "0", ",", "p", "=", "2",
       "$", "4", "f", "X", "X", "G", "0", "s", "p", "B", "9", "2", "W", "P", "B",
       "1", "N", "i", "t", "T", "8", "/", "O", "H", "0", "V", "K", "I", "$", "B",
       "w", "U", "g", "J", "H", "H", "Q", "a", "y", "n", "E", "+", "a", "4", "n",
       "Z", "r", "Y", "R", "z", "O", "l", "l", "G", "S", "j", "j", "x", "u", "x",
       "N", "X", "x", "y", "N", "R", "U", "t", "I", "6", "D", "l", "w", "/", "z",
       "l", "b", "t", "6", "P", "z", "O", "L", "8", "O", "n", "f", "q", "s", "6",
       "T", "c", "G">>,
     <<"$", "a", "r", "g", "o", "n", "2", "i", "d", "$", "m", "=", "1", "2", "0",
       ",", "t", "=", "5", "0", "0", "0", ",", "p", "=", "2", "$", "/", "L", "t",
       "F", "j", "H", "5", "r", "V", "L", "8">>,
     <<"$", "a", "r", "g", "o", "n", "2", "i", "$", "v", "=", "1", "9", ",", "m",
       "=", "1", "2", "0", ",", "t", "=", "5", "0", "0", "0", ",", "p", "=", "2",
       ",", "k", "e", "y", "i", "d", "=", "H", "j", "5", "+", "d", "s", "K", "0",
       ",", "d", "a", "t", "a", "=", "s", "R", "l", "H", "h", "R", "m", "K", "U",
       "G", "z", "d", "O", "m", "X", "n", "0", "1", "X", "m", "X", "y", "g", "d",
       "5", "K", "c", "$", "4", "f", "X", "X", "G", "0", "s", "p", "B", "9", "2",
       "W", "P", "B", "1", "N", "i", "t", "T", "8", "/", "O", "H", "0", "V", "K",
       "I", "$", "i", "P", "B", "V", "u", "O", "R", "E", "C", "m", "5", "b", "i",
       "U", "s", "j", "q", "3", "3", "h", "n", "9", "/", "7", "B", "K", "q", "y",
       "9", "a", "P", "W", "K", "h", "F", "f", "K", "2", "h", "a", "E", "s", "M">>}

\* with an explicit version and nothing else, a bad name, a missing m
Argon2MoreInputs ==
    {<<"$", "a", "r", "g", "o", "n", "2", "i", "$", "v", "=", "1", "9", ",", "m",
       "=", "1", "2", "0", ",", "t", "=", "5", "0", "0", "0", ",", "p", "=", "2">>,
     <<"$", "a", "r", "g", "o", "n", "2", "d", "$", "v", "=", "1", "6", ",", "m",
       "=", "1", "2", "0", ",", "t", "=", "5", "0", "0", "0", ",", "p", "=", "2",
       "$", "/", "L", "t", "F", "j", "H", "5", "r", "V", "L", "8">>,
     <<"$", "a", "r", "g", "o", "n", "2", "j", "$", "m", "=", "1", "2", "0", ",",
       "t", "=", "5", "0", "0", "0", ",", "p", "=", "2">>,
     <<"$", "a", "r", "g", "o", "n", "2", "i", "$", "v", "=", "1", "9", ",", "t",
       "=", "5", "0", "0", "0", ",", "p", "=", "2">>}

Argon2SchemaInputs == katGood \cup Argon2DecodeTests \cup Argon2MoreInputs

\* values of ln, r and p: minimal, with a leading zero, signed, not a number,
\* and an ln too large for the cost to be an int
ScryptCostValues ==
    {<<"1", "5">>, <<"0", "1", "5">>, <<"+", "1", "5">>, <<"-", "1">>, <<"1", "a">>, <<"0">>, <<"3", "1">>,
     <<"1">>, <<"3", "0">>}

ScryptBlockSizeValues ==
    {<<"8">>, <<"0", "8">>, <<"+", "8">>, <<"-", "8">>, <<"8", "x">>}

ScryptParallelismValues ==
    {<<"1">>, <<"0", "1">>, <<"+", "1">>, <<"-", "1">>, <<"p">>}

ScryptTails ==
    {<<>>, <<"$", "/", "L", "t", "F", "j", "H", "5", "r", "V", "L", "8">>,
     <<"$", "/", "L", "t", "F", "j", "H", "5", "r", "V", "L", "8", "$", "4", "f", "X", "X", "G", "0", "s", "p", "B", "9", "2", "W", "P", "B", "1", "N", "i", "t", "T", "8", "/", "O", "H", "0", "V", "K", "I">>}

ScryptInputs ==
    {<<"$", "s", "c", "r", "y", "p", "t", "$", "l", "n", "=">> \o ln \o <<",", "r", "=">> \o r \o <<",", "p", "=">> \o p \o tail :
        ln \in ScryptCostValues, r \in ScryptBlockSizeValues,
        p \in ScryptParallelismValues, tail \in ScryptTails}

InitSchemas ==
    /\ \/ schema = Argon2Schema /\ input \in Argon2SchemaInputs
       \/ schema = ScryptPHCSchema /\ input \in ScryptInputs
    /\ pc = "start"
    /\ split = <<>>
    /\ parsedParameters = <<>>
    /\ res = ZeroInstance
    /\ err = NilError
    /\ src = input
    /\ op = "none"
    /\ out = [text |-> <<>>, err |-> FALSE]
    /\ phc = NilArgon2PHC
    /\ raw = <<>>
    /\ encoded = <<>>
    /\ decoded = NilDecoded
    /\ waiting = NoWaiting

CallDecodeScryptPHC ==
    /\ op = "none"
    /\ op' = "DecodeScryptPHC"
    /\ LET decodedPHC == DecodeScryptPHC(src)
       IN  /\ phc' = decodedPHC.phc
           /\ out' = [text |-> <<>>, err |-> decodedPHC.err]
    /\ UNCHANGED <<src, raw, encoded, decoded, waiting>>
    /\ UNCHANGED decodeVars

NextSchemas ==
    \/ DecodeSplit
    \/ DecodeFunctionName
    \/ DecodeParameters
    \/ DecodeMatch
    \/ DecodeSalt
    \/ DecodeHash
    \/ DecodeEnd
    \/ DecodeScrypt
    \/ CallDecodeScryptPHC
    \/ CallDecodeArgon2PHCVersion

SpecSchemas == InitSchemas /\ [][NextSchemas]_vars

(***************************************************************************)
(* The decimal parsers called on their own.                                *)
(***************************************************************************)
DecimalChars == {"0", "1", "9", "-", "+", "a"}

\* values at the ends of the ranges of 8 and of 32 bits
DecimalEdgeSources ==
    {<<"1", "2", "7">>, <<"1", "2", "8">>, <<"-", "1", "2", "8">>, <<"-", "1", "2", "9">>,
     <<"2", "5", "5">>, <<"2", "5", "6">>, <<"4", "2", "4", "2">>, <<"-", "2", "1", "2", "1">>,
     <<"2", "1", "4", "7", "4", "8", "3", "6", "4", "7">>,
     <<"2", "1", "4", "7", "4", "8", "3", "6", "4", "8">>,
     <<"-", "2", "1", "4", "7", "4", "8", "3", "6", "4", "8">>,
     <<"-", "2", "1", "4", "7", "4", "8", "3", "6", "4", "9">>,
     <<"9", "9", "9", "9", "9", "9", "9", "9", "9", "9", "9", "9">>}

DecimalSources == SeqsUpTo(DecimalChars, MaxDecimalLen) \cup DecimalEdgeSources

BitSizes == {8, 16}

InitDecimal ==
    /\ NoDecode
    /\ src \in DecimalSources
    /\ op = "none"
    /\ out = [value |-> 0, err |-> FALSE, strict |-> FALSE, bitSize |-> 0]
    /\ phc = NilArgon2PHC
    /\ raw = <<>>
    /\ encoded = <<>>
    /\ decoded = NilDecoded
    /\ waiting = NoWaiting

\* out keeps the result together with the other arguments of the call
CallParsePHCDecimal ==
    /\ op = "none"
    /\ op' = "ParsePHCDecimal"
    /\ out' = [value |-> ParsePHCDecimal(src).value, err |-> ParsePHCDecimal(src).err,
               strict |-> TRUE, bitSize |-> 0]
    /\ UNCHANGED <<src, phc, raw, encoded, decoded, waiting>>
    /\ UNCHANGED decodeVars

CallParsePHCPositiveDecimal ==
    /\ op = "none"
    /\ op' = "ParsePHCPositiveDecimal"
    /\ out' = [value |-> ParsePHCPositiveDecimal(src).value,
               err |-> ParsePHCPositiveDecimal(src).err,
               strict |-> TRUE, bitSize |-> 0]
    /\ UNCHANGED <<src, phc, raw, encoded, decoded, waiting>>
    /\ UNCHANGED decodeVars

CallDecodeDecimalString ==
    /\ op = "none"
    /\ op' = "DecodeDecimalString"
    /\ \E strict \in BOOLEAN, bitSize \in BitSizes :
           out' = [value |-> DecodeDecimalString(src, strict, bitSize).value,
                   err |-> DecodeDecimalString(src, strict, bitSize).err,
                   strict |-> strict, bitSize |-> bitSize]
    /\ UNCHANGED <<src, phc, raw, encoded, decoded, waiting>>
    /\ UNCHANGED decodeVars

CallDecodeUnsignedString ==
    /\ op = "none"
    /\ op' = "DecodeUnsignedString"
    /\ \E strict \in BOOLEAN, bitSize \in BitSizes :
           out' = [value |-> DecodeUnsignedString(src, strict, bitSize).value,
                   err |-> DecodeUnsignedString(src, strict, bitSize).err,
                   strict |-> strict, bitSize |-> bitSize]
    /\ UNCHANGED <<src, phc, raw, encoded, decoded, waiting>>
    /\ UNCHANGED decodeVars

NextDecimal ==
    \/ CallParsePHCDecimal
    \/ CallParsePHCPositiveDecimal
    \/ CallDecodeDecimalString
    \/ CallDecodeUnsignedString

SpecDecimal == InitDecimal /\ [][NextDecimal]_vars

(***************************************************************************)
(* Notions the properties are stated in.                                   *)
(***************************************************************************)
Descriptions == schema.ParameterDescriptions

DescriptionNames == [i \in 1..Len(Descriptions) |-> Descriptions[i].Name]

ParsedNames == [i \in 1..Len(parsedParameters) |-> parsedParameters[i].Name]

DistinctNames ==
    \A i, k \in 1..Len(Descriptions) :
        Descriptions[i].Name = Descriptions[k].Name => i = k

AcceptEveryValue ==
    \A i \in 1..Len(Descriptions) : Descriptions[i].ValidateValue = "NoValueValidator"

Occurs(name, names) == \E k \in 1..Len(names) : names[k] = name

\* a is b with some elements left out
IsSubsequence(a, b) ==
    \E f \in [1..Len(a) -> 1..Len(b)] :
        /\ \A i \in 1..Len(a) : a[i] = b[f[i]]
        /\ \A i, k \in 1..Len(a) : i < k => f[i] < f[k]

Returned == pc = "done"

Succeeded == pc = "done" /\ err = NilError

Failed == pc = "done" /\ err # NilError

\* the call got as far as matching: function name and parameter list were fine
Matched ==
    /\ pc = "done"
    /\ res.Function # <<>>
    /\ ~Is(err, "ErrMissingParameterValue")

DollarCount(s) == Cardinality({i \in 1..Len(s) : s[i] = "$"})

\* the input is "$function" or "$function$parameters": nothing after the list
OnlyParameters ==
    \/ DollarCount(input) = 1
    \/ DollarCount(input) = 2 /\ parsedParameters # <<>>

\* C1: for distinct description names and validators that accept everything,
\* a call whose function name and parameter list are well formed (and that has
\* no salt) succeeds exactly when the names given, in their order, are a
\* subsequence of the description names that holds every non-optional name.
C1_OrderedSubsequence ==
    (Matched /\ OnlyParameters /\ DistinctNames /\ AcceptEveryValue) =>
        ( err = NilError <=>
            /\ IsSubsequence(ParsedNames, DescriptionNames)
            /\ \A i \in 1..Len(Descriptions) :
                   ~Descriptions[i].Optional => Occurs(Descriptions[i].Name, ParsedNames) )

C1_Witness ==
    /\ Succeeded /\ OnlyParameters /\ DistinctNames /\ AcceptEveryValue
    /\ Len(Descriptions) = 3
    /\ Len(parsedParameters) = 2
    /\ parsedParameters[1].Name = Descriptions[2].Name

\* C2: on success the result has one entry per description, in
\* schema order, set to the input's value when the name was given and to the
\* default otherwise.
C2_ResultMirrorsSchema ==
    Succeeded =>
        /\ Len(res.Parameters) = Len(Descriptions)
        /\ \A i \in 1..Len(Descriptions) :
            /\ res.Parameters[i].Name = Descriptions[i].Name
            /\ IF Occurs(Descriptions[i].Name, ParsedNames)
               THEN /\ res.Parameters[i].IsSet
                    /\ \E k \in 1..Len(parsedParameters) :
                           /\ parsedParameters[k].Name = Descriptions[i].Name
                           /\ parsedParameters[k].Value = res.Parameters[i].Value
               ELSE /\ ~res.Parameters[i].IsSet
                    /\ res.Parameters[i].Value = Descriptions[i].Default

\* C2, for schemas whose description names are pairwise distinct: the same.
C2_ResultMirrorsDistinctSchema == DistinctNames => C2_ResultMirrorsSchema

C2_Witness ==
    /\ Succeeded /\ DistinctNames
    /\ Len(Descriptions) = 3
    /\ res.Parameters[1].IsSet /\ ~res.Parameters[2].IsSet /\ res.Parameters[3].IsSet

\* C3: with validators that accept everything, a call that gets as far as
\* matching fails with ErrNonOptionalParameterMissing whenever the name of a
\* non-optional description is not among the names given (or no parameter
\* segment is given at all), and no result entry of a non-optional description
\* is ever its default.
C3_RequiredParameterMissing ==
    /\ (Matched /\ AcceptEveryValue /\
        \E i \in 1..Len(Descriptions) :
            ~Descriptions[i].Optional /\ ~Occurs(Descriptions[i].Name, ParsedNames))
       => Is(err, "ErrNonOptionalParameterMissing")
    /\ Returned =>
        \A i \in 1..Len(res.Parameters) :
            ~Descriptions[i].Optional => res.Parameters[i].IsSet

C3_Witness ==
    /\ Matched /\ AcceptEveryValue
    /\ Len(parsedParameters) = 2
    /\ Len(Descriptions) = 3
    /\ Occurs(Descriptions[1].Name, ParsedNames)
    /\ ~Descriptions[3].Optional /\ ~Occurs(Descriptions[3].Name, ParsedNames)
    /\ Is(err, "ErrNonOptionalParameterMissing")

\* C4: an error is returned together with the zero PHCInstance only.
C4_ErrorWithZeroInstance ==
    Failed => res = ZeroInstance

\* an input with an empty '$' segment: "$" at the end or followed by "$"
HasEmptySegment(s) ==
    \E i \in 1..Len(s) : s[i] = "$" /\ (i = Len(s) \/ s[i + 1] = "$")

\* the text between the leading '$' and the next one
FirstSegment(s) ==
    LET ends == {i \in 2..(Len(s) + 1) : i = Len(s) + 1 \/ s[i] = "$"}
    IN  SubSeq(s, 2, (CHOOSE i \in ends : \A k \in ends : i <= k) - 1)

StructureValid(s) == Len(s) > 0 /\ s[1] = "$" /\ ~HasEmptySegment(s)

\* the string values a message was put together from
Mentions(e, s) == \E i \in 1..Len(e.Message) : e.Message[i] = Arg(s)

\* C6: the first segment is accepted only when it is one of FunctionNames;
\* otherwise the error wraps ErrMismatchedFunctionName and its message lists
\* every accepted name, for one accepted name as for several.
C6_MismatchListsAcceptedNames ==
    /\ Succeeded => Occurs(FirstSegment(input), schema.FunctionNames)
    /\ (Returned /\ StructureValid(input)
          /\ ~Occurs(FirstSegment(input), schema.FunctionNames))
       => /\ Is(err, "ErrMismatchedFunctionName")
          /\ \A i \in 1..Len(schema.FunctionNames) :
                 Mentions(err, schema.FunctionNames[i])

\* C7: an input without the leading '$', or with an empty segment after it,
\* fails with ErrInvalidPHCStructure whatever else it holds.
C7_InvalidStructure ==
    (Returned /\ (~HasPrefix(input, <<"$">>) \/ HasEmptySegment(input)))
        => Is(err, "ErrInvalidPHCStructure")

C7_Witness ==
    /\ Returned
    /\ HasPrefix(input, <<"$", "f", "$", "a", "=", "1", "$">>)
    /\ HasEmptySegment(input)
    /\ Is(err, "ErrInvalidPHCStructure")

\* an entry of a comma separated list that has no '='
HasEntryWithoutEquals(s) ==
    \E i \in 1..(Len(s) + 1), j \in 0..Len(s) :
        /\ i <= j + 1
        /\ i = 1 \/ s[i - 1] = ","
        /\ j = Len(s) \/ s[j + 1] = ","
        /\ \A k \in i..j : s[k] # "," /\ s[k] # "="

\* C8: a segment after the function name that contains '=' is split on ','
\* and every entry on its first '='; an entry without '=' (an empty one too)
\* ends the call with ErrMissingParameterValue at once, before any matching.
C8_ParameterList ==
    [][ (pc = "Parameters" /\ Len(split) > 0 /\ ContainsRune(split[1], "=")) =>
          IF HasEntryWithoutEquals(split[1])
          THEN /\ pc' = "done"
               /\ Is(err', "ErrMissingParameterValue")
               /\ res'.Parameters = <<>>
          ELSE /\ pc' = "Match"
               /\ split' = Tail(split)
               /\ Join([i \in 1..Len(parsedParameters') |->
                           parsedParameters'[i].Name \o <<"=">>
                               \o parsedParameters'[i].Value], <<",">>) = split[1]
               /\ \A i \in 1..Len(parsedParameters') :
                      /\ ~ContainsRune(parsedParameters'[i].Name, "=")
                      /\ ~ContainsRune(parsedParameters'[i].Name \o
                                       parsedParameters'[i].Value, ",")
      ]_vars

C8_Witness ==
    /\ Returned
    /\ Is(err, "ErrMissingParameterValue")
    /\ err.Message = parameterMessage(<<>>)
    /\ HasPrefix(input, <<"$", "f", "$", "a", "=", "1", ",", ",">>)

Rank(p) ==
    CASE p = "start" -> 0
      [] p = "FunctionName" -> 1
      [] p = "Parameters" -> 2
      [] p = "Match" -> 3
      [] p = "Salt" -> 4
      [] p = "Hash" -> 5
      [] p = "End" -> 6
      [] p = "done" -> 7

SegmentCount(s) == DollarCount(s)

\* C9: the segments are consumed left to right as function name, parameter
\* list (only a segment with '='), salt, hash, and never backwards; a
\* successful call has at most four segments, three without a parameter
\* list; a segment after the hash is ErrInvalidPHCStructure; a segment in salt
\* or hash position is decoded as base64 even when it contains '='.
C9_LeftToRight ==
    /\ [][ /\ Rank(pc') > Rank(pc)
           /\ Len(split') <= Len(split) \/ pc = "start"
           /\ (pc = "End" /\ Len(split) > 0)
                  => pc' = "done" /\ Is(err', "ErrInvalidPHCStructure")
           /\ (pc \in {"Salt", "Hash"} /\ Len(split) > 0 /\ ContainsRune(split[1], "="))
                  => /\ pc' = "done"
                     /\ Is(err', "Base64DecodeError")
                     /\ parsedParameters' = parsedParameters
           /\ parsedParameters' # parsedParameters => pc = "Parameters"
       ]_vars
    /\ [](Succeeded =>
             /\ SegmentCount(input) <= 4
             /\ parsedParameters = <<>> => SegmentCount(input) <= 3)

C9_Witness ==
    /\ Returned
    /\ SegmentCount(input) = 5
    /\ parsedParameters # <<>>
    /\ res.Hash # <<>>
    /\ Is(err, "ErrInvalidPHCStructure")

\* C10: Base64Decode and Base64DecodeNotStrict return an error for every
\* non-empty input of length 1 modulo 4, whatever its characters, and return
\* an empty result without error for the empty input.
C10_LengthOneModFour ==
    op \in {"Base64Decode", "Base64DecodeNotStrict"} =>
        /\ (Len(src) > 0 /\ Len(src) % 4 = 1) => out.err
        /\ src = <<>> => (~out.err /\ out.bytes = <<>>)

\* s holds sub, starting at its i-th character
HasAt(s, i, sub) == i + Len(sub) - 1 <= Len(s) /\ SubSeq(s, i, i + Len(sub) - 1) = sub

\* a parameter "name=" written with nothing after it
WritesEmpty(s, name) ==
    \E i \in 1..Len(s) :
        /\ HasAt(s, i, name)
        /\ i + Len(name) > Len(s) \/ s[i + Len(name)] \in {",", "$"}

\* canonical form: no parameter is written with its default value (version
\* 16, empty keyid, empty data); minimal decimals and the declared order are
\* what DecodeArgon2PHC accepts in the first place
Canonical(s) ==
    /\ ~\E i \in 1..Len(s) : HasAt(s, i, <<"v", "=", "1", "6", ",">>)
    /\ ~WritesEmpty(s, <<"k", "e", "y", "i", "d", "=">>)
    /\ ~WritesEmpty(s, <<"d", "a", "t", "a", "=">>)

\* C5: EncodeString of what DecodeArgon2PHC made of a canonical Argon2 PHC
\* string it accepts is that string again, with or without version, keyid,
\* data, salt and hash.
C5_CanonicalRoundTrip ==
    (op = "EncodeString" /\ Canonical(src)) => (~out.err /\ out.text = src)

\* the string is made of alphabet characters only
OverAlphabet(s) == \A i \in 1..Len(s) : \E k \in 1..Len(alphabet) : alphabet[k] = s[i]

\* the 6-bit value of an alphabet character, by its place in A-Za-z0-9+/
SixBits(c) == (CHOOSE k \in 1..Len(alphabet) : alphabet[k] = c) - 1

\* bit i (1 = first) of the bit string the characters of s spell out
BitAt(s, i) ==
    LET v == SixBits(s[((i - 1) \div 6) + 1])
        shift == 5 - ((i - 1) % 6)
    IN  (v \div (2 ^ shift)) % 2

\* the whole bytes at the front of that bit string
BitPrefixBytes(s) ==
    [n \in 1..((Len(s) * 6) \div 8) |->
        BitAt(s, 8 * n - 7) * 128 + BitAt(s, 8 * n - 6) * 64 + BitAt(s, 8 * n - 5) * 32
        + BitAt(s, 8 * n - 4) * 16 + BitAt(s, 8 * n - 3) * 8 + BitAt(s, 8 * n - 2) * 4
        + BitAt(s, 8 * n - 1) * 2 + BitAt(s, 8 * n)]

\* some bit after the last whole byte is set
TrailingBitsSet(s) ==
    \E i \in (8 * ((Len(s) * 6) \div 8) + 1)..(Len(s) * 6) : BitAt(s, i) = 1

\* C11: on a string over the alphabet of length 4k+2 or 4k+3 whose bits after
\* the last whole byte are not all zero, Base64Decode fails, and
\* Base64DecodeNotStrict succeeds with the bytes of the bit prefix.
C11_StrictTrailingBits ==
    (OverAlphabet(src) /\ Len(src) % 4 \in {2, 3} /\ TrailingBitsSet(src)) =>
        /\ op = "Base64Decode" => out.err
        /\ op = "Base64DecodeNotStrict" => (~out.err /\ out.bytes = BitPrefixBytes(src))

C11_Witness ==
    /\ op = "Base64DecodeNotStrict"
    /\ src = <<"H", "j", "5", "+", "d", "s", "K", "0", "Z", "R">>
    /\ out.bytes = <<30, 62, 126, 118, 194, 180, 101>>
    /\ Base64Decode(src).err

\* C12: Base64Encode(b) holds alphabet characters only, has length
\* ceil(4*len(b)/3), and Base64Decode gives b back; and for every string s
\* Base64Decode accepts, Base64Encode of the result is s.
C12_EncodeDecodeInverse ==
    /\ op = "Base64Encode" =>
          /\ OverAlphabet(encoded)
          /\ 3 * Len(encoded) >= 4 * Len(raw) /\ 3 * Len(encoded) < 4 * Len(raw) + 3
    /\ op = "Base64Decode(Base64Encode)" => (~out.err /\ out.bytes = raw)
    /\ op = "Base64Encode(Base64Decode)" => encoded = src

\* a digit string that does not start with 0
IsPositiveNumeral(s) ==
    /\ Len(s) >= 1
    /\ \A i \in 1..Len(s) : s[i] \in {"0", "1", "2", "3", "4", "5", "6", "7", "8", "9"}
    /\ s[1] # "0"

\* the grammar 0 | [1-9][0-9]*
IsMinimalUnsigned(s) == s = <<"0">> \/ IsPositiveNumeral(s)

\* the grammar 0 | -[1-9][0-9]* | [1-9][0-9]*
IsMinimalSigned(s) ==
    \/ IsMinimalUnsigned(s)
    \/ Len(s) >= 2 /\ s[1] = "-" /\ IsPositiveNumeral(Tail(s))

\* a numeral without leading zeros is at most the numeral top
NumeralAtMost(s, top) ==
    \/ Len(s) < Len(top)
    \/ /\ Len(s) = Len(top)
       /\ \/ s = top
          \/ \E i \in 1..Len(s) :
                 /\ DigitValue(s[i]) < DigitValue(top[i])
                 /\ \A k \in 1..(i - 1) : s[k] = top[k]

\* the decimal rendering of an integer
RECURSIVE Render(_)
Render(n) ==
    IF n >= 0
    THEN (IF n < 10 THEN <<>> ELSE Render(n \div 10)) \o <<Digits[(n % 10) + 1]>>
    ELSE LET last == (10 - (n % 10)) % 10
             rest == (n + last) \div 10
         IN  (IF rest = 0 THEN <<"-">> ELSE Render(rest)) \o <<Digits[last + 1]>>

\* a string of the signed grammar whose value fits an int of intSize bits
FitsInt(s) ==
    IF Len(s) >= 1 /\ s[1] = "-"
    THEN NumeralAtMost(Tail(s), <<"2", "1", "4", "7", "4", "8", "3", "6", "4", "8">>)
    ELSE NumeralAtMost(s, <<"2", "1", "4", "7", "4", "8", "3", "6", "4", "7">>)

\* C13: ParsePHCDecimal succeeds exactly on the strings of the grammar
\* 0 | -[1-9][0-9]* | [1-9][0-9]* whose value fits the int, and then returns
\* the integer whose decimal rendering is the input; anything else is an error.
C13_ParsePHCDecimal ==
    op = "ParsePHCDecimal" =>
        /\ ~out.err <=> (IsMinimalSigned(src) /\ FitsInt(src))
        /\ ~out.err => Render(out.value) = src

C13_Witness ==
    /\ op = "ParsePHCDecimal"
    /\ src = <<"-", "2", "1", "2", "1">>
    /\ ~out.err
    /\ out.value = 0 - 2121

\* C14: ParsePHCPositiveDecimal succeeds exactly on the strings of the
\* grammar 0 | [1-9][0-9]* whose value fits the int and returns that value;
\* what it accepts ParsePHCDecimal accepts with the same result; every input
\* that starts with '-' is rejected.
C14_ParsePHCPositiveDecimal ==
    op = "ParsePHCPositiveDecimal" =>
        /\ ~out.err <=> (IsMinimalUnsigned(src) /\ FitsInt(src))
        /\ ~out.err => /\ Render(out.value) = src
                       /\ ~ParsePHCDecimal(src).err
                       /\ ParsePHCDecimal(src).value = out.value
        /\ (Len(src) >= 1 /\ src[1] = "-") => out.err

C14_Witness ==
    /\ op = "ParsePHCPositiveDecimal"
    /\ src = <<"4", "2", "4", "2">>
    /\ ~out.err
    /\ out.value = 4242

\* a string of the signed grammar whose value fits a signed integer of w bits
FitsSigned(s, w) ==
    IF Len(s) >= 1 /\ s[1] = "-"
    THEN NumeralAtMost(Tail(s), Render(2 ^ (w - 1)))
    ELSE NumeralAtMost(s, Render(2 ^ (w - 1) - 1))

\* a string of the unsigned grammar whose value is below 2^w
FitsUnsigned(s, w) == NumeralAtMost(s, Render(2 ^ w - 1))

\* C15: with strict set, DecodeDecimalString succeeds exactly on the strings
\* of 0 | -[1-9][0-9]* | [1-9][0-9]* that fit a signed integer of the given
\* width and DecodeUnsignedString exactly on those of 0 | [1-9][0-9]* below
\* 2^width (leading zeros, "-0", "-", a leading "+" and values out of range
\* are errors); without strict only minimality is not checked, values out of
\* range are still errors.
C15_DecimalStringStrict ==
    /\ (op = "DecodeDecimalString" /\ out.strict) =>
           (~out.err <=> (IsMinimalSigned(src) /\ FitsSigned(src, out.bitSize)))
    /\ (op = "DecodeUnsignedString" /\ out.strict) =>
           (~out.err <=> (IsMinimalUnsigned(src) /\ FitsUnsigned(src, out.bitSize)))
    /\ (op = "DecodeDecimalString" /\ ~out.strict) =>
           /\ ~out.err => /\ out.value >= 0 - 2 ^ (out.bitSize - 1)
                          /\ out.value <= 2 ^ (out.bitSize - 1) - 1
           /\ IsMinimalSigned(src) => (~out.err <=> FitsSigned(src, out.bitSize))
    /\ (op = "DecodeUnsignedString" /\ ~out.strict) =>
           /\ ~out.err => (out.value >= 0 /\ out.value <= 2 ^ out.bitSize - 1)
           /\ IsMinimalUnsigned(src) => (~out.err <=> FitsUnsigned(src, out.bitSize))

\* the text ends with the given text
HasSuffix(s, suffix) ==
    Len(s) >= Len(suffix) /\ SubSeq(s, Len(s) - Len(suffix) + 1, Len(s)) = suffix

\* C16: after the function name and the parameters, EncodeString writes
\* nothing when salt and hash are empty, "$salt" when only the hash is empty
\* and "$salt$hash" when neither is; with an empty salt and a hash it returns
\* an error and the empty string.
C16_SaltAndHashTail ==
    op = "EncodeString" =>
        /\ (phc.Salt = <<>> /\ phc.Hash = <<>>) =>
               (~out.err /\ DollarCount(out.text) = 2)
        /\ (phc.Salt # <<>> /\ phc.Hash = <<>>) =>
               /\ ~out.err
               /\ DollarCount(out.text) = 3
               /\ HasSuffix(out.text, <<"$">> \o phc.Salt)
        /\ (phc.Salt # <<>> /\ phc.Hash # <<>>) =>
               /\ ~out.err
               /\ DollarCount(out.text) = 4
               /\ HasSuffix(out.text, <<"$">> \o phc.Salt \o <<"$">> \o phc.Hash)
        /\ (phc.Salt = <<>> /\ phc.Hash # <<>>) => (out.err /\ out.text = <<>>)

\* an instance with a hash and no salt was encoded
C16_Witness ==
    /\ op = "EncodeString"
    /\ phc.Salt = <<>>
    /\ phc.Hash # <<>>
    /\ out.err
    /\ out.text = <<>>

\* C17: in a call that succeeds, every parameter read from the input for a
\* description without a validator of its own (ValidateValue = nil) has a
\* value that is not empty.
C17_ValueNotEmpty ==
    Succeeded =>
        \A i \in 1..Len(res.Parameters) :
            (/\ res.Parameters[i].IsSet
             /\ schema.ParameterDescriptions[i].ValidateValue = "nil")
                => res.Parameters[i].Value # <<>>

\* the values of ln, r and p as they are written in a scrypt PHC string
ScryptValues(s) ==
    LET params == Split(Split(s, "$")[3], ",")
    IN  <<After(params[1], <<"l", "n", "=">>),
          After(params[2], <<"r", "=">>),
          After(params[3], <<"p", "=">>)>>

\* a value with a leading zero, a sign or a character that is no digit
NotMinimalDecimal(v) ==
    \/ Len(v) > 1 /\ v[1] = "0"
    \/ Len(v) >= 1 /\ v[1] \in {"+", "-"}
    \/ \E i \in 1..Len(v) : ~IsDigit(v[i])

\* C19: a scrypt PHC string in which ln, r or p has a leading zero, a sign or
\* a character that is no digit is rejected by DecodeScrypt and by
\* DecodeScryptPHC.
C19_ScryptMinimalDecimal ==
    (/\ schema = ScryptPHCSchema
     /\ \E i \in 1..3 : NotMinimalDecimal(ScryptValues(input)[i])) =>
        /\ pc = "returned" => decoded.err # NilError
        /\ op = "DecodeScryptPHC" => out.err

\* C18: Argon2Schema.Decode, and with it DecodeArgon2, succeeds on every
\* string of katGood, with or without keyid and data after m, t and p.
C18_KeyIdAndData ==
    (schema = Argon2Schema /\ input \in katGood /\ Returned) => err = NilError

\* the entries of the parameter list of a PHC string
ParameterEntries(s) ==
    LET segs == Split(s, "$")
    IN  IF Len(segs) >= 3 THEN Split(segs[3], ",") ELSE <<>>

HasEntry(s, entry) ==
    \E i \in 1..Len(ParameterEntries(s)) : ParameterEntries(s)[i] = entry

NoVersion(s) ==
    \A i \in 1..Len(ParameterEntries(s)) : ~HasPrefix(ParameterEntries(s)[i], <<"v", "=">>)

Argon2Versions == <<16, 19>>

isValidArgon2Variant(v) == \E i \in 1..Len(Argon2Variants) : Argon2Variants[i] = v

isValidArgon2Version(v) == \E i \in 1..Len(Argon2Versions) : Argon2Versions[i] = v

\* validateBase64Len returns an error
validateBase64Len(s) == Len(s) % 4 = 1

\* uint64(n) > argon2MaxSize for n >= 1: argon2MaxSize is 2^32 - 1
exceedsArgon2MaxSize(n) == n \div 65536 >= 65536

\* the tests of memory, iterations and parallelism shared by the revisions
\* Version and KeyId; TRUE stands for the error returned
validateArgon2Costs(p) ==
    \/ p.Memory < 1 \/ exceedsArgon2MaxSize(p.Memory)
    \/ p.Iterations < 1 \/ exceedsArgon2MaxSize(p.Iterations)
    \/ p.Parallelism < 1 \/ p.Parallelism > 255
    \/ p.Memory < 8 * p.Parallelism

\* ValidateParameters, revision Version
ValidateParametersVersion(p) ==
    \/ ~isValidArgon2Variant(p.Variant)
    \/ ~isValidArgon2Version(p.Version)
    \/ validateArgon2Costs(p)
    \/ validateBase64Len(p.Salt)
    \/ validateBase64Len(p.Hash)

\* ValidateParameters, revision KeyId
ValidateParametersKeyId(p) ==
    \/ validateArgon2Costs(p)
    \/ validateBase64Len(p.KeyId)
    \/ validateBase64Len(p.Data)
    \/ validateBase64Len(p.Salt)
    \/ validateBase64Len(p.Hash)

\* ValidateParameters, revision Schema
ValidateParametersSchema(p) ==
    \/ ~isValidArgon2Variant(p.Variant)
    \/ ~isValidArgon2Version(p.Version)
    \/ p.M < 1
    \/ p.T < 1
    \/ p.P < 1

\* Argon2PHC.ValidateParameters of the revision the instance belongs to
Argon2ValidateParameters(p) ==
    CASE p.rev = "Version" -> ValidateParametersVersion(p)
      [] p.rev = "KeyId" -> ValidateParametersKeyId(p)
      [] p.rev = "Schema" -> ValidateParametersSchema(p)

katBad ==
    {<<"$", "a", "r", "g", "o", "n", "2", "j", "$", "m", "=", "1", "2", "0",
       ",", "t", "=", "5", "0", "0", "0", ",", "p", "=", "2">>,
     <<"$", "a", "r", "g", "o", "n", "2", "i", "$", "t", "=", "5", "0", "0",
       "0", ",", "p", "=", "2">>,
     <<"$", "a", "r", "g", "o", "n", "2", "i", "$", "m", "=", "1", "2", "0",
       ",", "p", "=", "2">>,
     <<"$", "a", "r", "g", "o", "n", "2", "i", "$", "m", "=", "1", "2", "0",
       ",", "t", "=", "5", "0", "0", "0">>,
     <<"$", "a", "r", "g", "o", "n", "2", "i", "$", "m", "=", "1", "5", ",",
       "t", "=", "5", "0", "0", "0", ",", "p", "=", "2">>,
     <<"$", "a", "r", "g", "o", "n", "2", "i", "$", "m", "=", "1", "2", "0",
       ",", "t", "=", "0", ",", "p", "=", "2">>,
     <<"$", "a", "r", "g", "o", "n", "2", "i", "$", "m", "=", "1", "2", "0",
       ",", "t", "=", "5", "0", "0", "0", ",", "p", "=", "0">>,
     <<"$", "a", "r", "g", "o", "n", "2", "i", "$", "m", "=", "2", "0", "0",
       "0", ",", "t", "=", "5", "0", "0", "0", ",", "p", "=", "2", "5", "6">>,
     <<"$", "a", "r", "g", "o", "n", "2", "i", "$", "m", "=", "0", "1", "2",
       "0", ",", "t", "=", "5", "0", "0", "0", ",", "p", "=", "2">>,
     <<"$", "a", "r", "g", "o", "n", "2", "i", "$", "m", "=", "1", "2", "0",
       ",", "t", "=", "0", "5", "0", "0", "0", ",", "p", "=", "2">>,
     <<"$", "a", "r", "g", "o", "n", "2", "i", "$", "m", "=", "1", "2", "0",
       ",", "t", "=", "5", "0", "0", "0", ",", "p", "=", "0", "2">>,
     <<"$", "a", "r", "g", "o", "n", "2", "i", "$", "m", "=", "1", "2", "0",
       ",", "t", "=", "4", "2", "9", "4", "9", "6", "7", "2", "9", "6", ",",
       "p", "=", "2">>,
     <<"$", "a", "r", "g", "o", "n", "2", "i", "$", "m", "=", "1", "2", "0",
       ",", "t", "=", "5", "0", "0", "0", ",", "p", "=", "2", ",", "k", "e",
       "y", "i", "d", "=", "H", "j", "5", "+", "d", "s", "K", "0", "Z">>,
     <<"$", "a", "r", "g", "o", "n", "2", "i", "$", "m", "=", "1", "2", "0",
       ",", "t", "=", "5", "0", "0", "0", ",", "p", "=", "2", ",", "k", "e",
       "y", "i", "d", "=", "H", "j", "5", "+", "d", "s", "K", "0", "Z", "R">>,
     <<"$", "a", "r", "g", "o", "n", "2", "i", "$", "m", "=", "1", "2", "0",
       ",", "t", "=", "5", "0", "0", "0", ",", "p", "=", "2", ",", "k", "e",
       "y", "i", "d", "=", "H", "j", "5", "+", "d", "s", "K", "0", "Z", "Q",
       "B">>,
     <<"$", "a", "r", "g", "o", "n", "2", "i", "$", "m", "=", "1", "2", "0",
       ",", "t", "=", "5", "0", "0", "0", ",", "p", "=", "2", ",", "k", "e",
       "y", "i", "d", "=", "M", "w", "m", "c", "v", "5", "/", "a", "v", "k",
       "X", "J">>,
     <<"$", "a", "r", "g", "o", "n", "2", "i", "$", "m", "=", "1", "2", "0",
       ",", "t", "=", "5", "0", "0", "0", ",", "p", "=", "2", ",", "d", "a",
       "t", "a", "=", "V", "r", "a", "i", "0", "M", "E", "0", "m", "7", "l",
       "o", "r", "f", "x", "f", "O", "C", "G", "3", "+", "6", "w", "e", "5",
       "N", "8", "9", "+", "2", "h", "X", "w", "k", "b", "v", "0", "C", "5",
       "S", "E", "C", "a", "b">>,
     <<"$", "a", "r", "g", "o", "n", "2", "i", "$", "m", "=", "1", "2", "0",
       ",", "t", "=", "5", "0", "0", "0", ",", "p", "=", "2", "$", "+", "y",
       "P", "b", "R", "i", "6", "h", "d", "w">>,
     <<"$", "a", "r", "g", "o", "n", "2", "i", "$", "m", "=", "1", "2", "0",
       ",", "t", "=", "5", "0", "0", "0", ",", "p", "=", "2", "$", "S", "I",
       "Z", "z", "z", "P", "h", "Y", "C", "/", "C", "X", "O", "f", "6", "4",
       "v", "W", "G", "/", "I", "Z", "j", "O", "/", "a", "m", "l", "R", "g",
       "v", "K", "s", "c", "a", "R", "C", "Y", "w", "d", "g", "9", "R", "1",
       "b", "o", "F", "N", "/", "N", "j", "a", "C", "1", "V", "d", "X", "d",
       "c", "O", "t", "F", "x", "+", "0", "A">>,
     <<"$", "a", "r", "g", "o", "n", "2", "i", "$", "m", "=", "1", "2", "0",
       ",", "t", "=", "5", "0", "0", "0", ",", "p", "=", "2", "$", "4", "f",
       "X", "X", "G", "0", "s", "p", "B", "9", "2", "W", "P", "B", "1", "N",
       "i", "t", "T", "8", "/", "O", "H", "0", "V", "K", "I", "$", "i", "H",
       "S", "D", "P", "H", "z", "U", "h", "P", "z", "K", "7", "r", "C", "c",
       "J", "g", "O", "F", "f", "g", "$", "c", "+", "j", "b", "g", "T", "K",
       "0", "P", "T", "0", "e", "C", "M", "I">>,
     <<"$", "a", "r", "g", "o", "n", "2", "i", "$", "m", "=", "1", "2", "0",
       ",", "t", "=", "5", "0", "0", "0", ",", "p", "=", "2", "$", "4", "f",
       "X", "X", "G", "0", "s", "p", "B", "9", "2", "W", "P", "B", "1", "N",
       "i", "t", "T", "8", "/", "O", "H", "0", "V", "K", "I", "$", "i", "H",
       "S", "D", "P", "H", "z", "U", "h", "P", "z", "K", "7", "r", "C", "c",
       "J", "g", "O", "F", "f", "g", "$", "K", "t", "T", "P", "h", "i", "U",
       "l", "D", "b", "9", "8", "p", "s", "I", "i", "N", "x", "U", "S", "Z",
       "8", "G", "Y", "V", "E", "m", "1", "C", "s", "f", "E", "a", "L", "J",
       "r", "p", "p", "B", "e", "5", "p", "o", "D", "2", "/", "s", "Q", "O",
       "U", "u", "5", "m", "m", "o", "w", "S", "i", "Q", "U", "b", "H", "+",
       "Z", "K", "3", "P", "j", "F", "d", "Y", "3", "K", "U", "u", "f", "8",
       "3", "b", "T", "5", "X", "q", "T", "Z", "y", "0">>}

(***************************************************************************)
(* ScryptPHC.ValidateParameters in the revision of the regular expression   *)
(* and in the one of the schema, and the earliest DecodeScryptPHC.  A       *)
(* result has a field panic: the call did not return, the runtime stopped   *)
(* the program (integer division by zero, index out of range).              *)
(***************************************************************************)
maxInt == MaxSigned(intSize)

\* uint64(r) * uint64(p) >= 1<<30 for r >= 1.  The conversion of a negative p
\* is 2^64 - |p| and the product wraps to 2^64 - r * |p|, far above 2^30.
scryptProductTooLarge(r, p) ==
    IF p < 0 THEN TRUE
    ELSE IF p = 0 THEN FALSE
    ELSE r > (2 ^ 30 - 1) \div p

\* ScryptPHC.ValidateParameters, revision of the regular expression.  The
\* operands of || are evaluated from the left, so maxInt/128/Parallelism is
\* computed only when the product is small.
ScryptValidateParametersRegex(p) ==
    IF p.BlockSize < 1
    THEN [err |-> TRUE, panic |-> FALSE]
    ELSE IF scryptProductTooLarge(p.BlockSize, p.Parallelism)
    THEN [err |-> TRUE, panic |-> FALSE]
    ELSE IF p.Parallelism = 0
    THEN [err |-> FALSE, panic |-> TRUE]
    ELSE [err |-> \/ p.BlockSize > (maxInt \div 128) \div p.Parallelism
                  \/ p.BlockSize > maxInt \div 256,
          panic |-> FALSE]

\* cost&(cost-1) == 0 for cost > 1
isPowerOfTwo(cost) == \E k \in 0..(intSize - 2) : cost = 2 ^ k

\* ScryptPHC.ValidateParameters, revision of the schema
ScryptValidateParametersSchema(p) ==
    [err |-> \/ p.Cost <= 1 \/ ~isPowerOfTwo(p.Cost)
             \/ p.BlockSize < 1
             \/ p.Parallelism < 1
             \/ scryptProductTooLarge(p.BlockSize, p.Parallelism)
             \/ p.BlockSize > (maxInt \div 128) \div p.Parallelism
             \/ p.BlockSize > maxInt \div 256
             \/ p.Cost > (maxInt \div 128) \div p.BlockSize,
     panic |-> FALSE]

\* ScryptPHC.ValidateParameters of the revision the instance belongs to
ScryptValidateParameters(p) ==
    IF p.rev = "regex"
    THEN ScryptValidateParametersRegex(p)
    ELSE ScryptValidateParametersSchema(p)

\* the length of the longest run of digits of s from position i on
RECURSIVE digitRun(_, _)
digitRun(s, i) ==
    IF i <= Len(s) /\ IsDigit(s[i]) THEN 1 + digitRun(s, i + 1) ELSE 0

\* the length of the longest run of base64 characters of s from position i on
RECURSIVE base64Run(_, _)
base64Run(s, i) ==
    IF i <= Len(s) /\ decodeMap(s[i]) # 255 THEN 1 + base64Run(s, i + 1) ELSE 0

\* s has the text lit at position i
HasAtPosition(s, i, lit) ==
    /\ i + Len(lit) - 1 <= Len(s)
    /\ SubSeq(s, i, i + Len(lit) - 1) = lit

\* the earliest scryptPHCRx, \$scrypt\$ln=(\d+),r=(\d+),p=(\d+)\$(b+)\$(b+),
\* tried at position i of s: the groups 1..5, or NoMatch.  The expression is
\* not anchored.  What follows a group is never in the class of the group,
\* so a group can only be the longest run.
scryptPHCRxEarliestAt(s, i) ==
    LET lnAt == i + 11
        lnLen == digitRun(s, lnAt)
        rAt == lnAt + lnLen + 3
        rLen == digitRun(s, rAt)
        pAt == rAt + rLen + 3
        pLen == digitRun(s, pAt)
        saltAt == pAt + pLen + 1
        saltLen == base64Run(s, saltAt)
        hashAt == saltAt + saltLen + 1
        hashLen == base64Run(s, hashAt)
    IN  IF /\ HasAtPosition(s, i, <<"$", "s", "c", "r", "y", "p", "t", "$", "l", "n", "=">>)
           /\ lnLen >= 1
           /\ HasAtPosition(s, lnAt + lnLen, <<",", "r", "=">>)
           /\ rLen >= 1
           /\ HasAtPosition(s, rAt + rLen, <<",", "p", "=">>)
           /\ pLen >= 1
           /\ HasAtPosition(s, pAt + pLen, <<"$">>)
           /\ saltLen >= 1
           /\ HasAtPosition(s, saltAt + saltLen, <<"$">>)
           /\ hashLen >= 1
        THEN <<SubSeq(s, lnAt, lnAt + lnLen - 1),
               SubSeq(s, rAt, rAt + rLen - 1),
               SubSeq(s, pAt, pAt + pLen - 1),
               SubSeq(s, saltAt, saltAt + saltLen - 1),
               SubSeq(s, hashAt, hashAt + hashLen - 1)>>
        ELSE NoMatch

\* scryptPHCRx.FindStringSubmatch of the earliest revision: the leftmost match
scryptPHCRxEarliest(s) ==
    LET starts == {i \in 1..Len(s) : scryptPHCRxEarliestAt(s, i) # NoMatch}
    IN  IF starts = {}
        THEN NoMatch
        ELSE scryptPHCRxEarliestAt(s, CHOOSE i \in starts : \A k \in starts : i <= k)

\* the earliest DecodeScryptPHC, after the match
scryptPHCEarliestFromMatch(match, cost, blockSize, parallelism) ==
    IF cost.err \/ blockSize.err \/ parallelism.err
    THEN [phc |-> NilScryptPHC, err |-> TRUE, panic |-> FALSE]
    ELSE [phc |-> [rev |-> "regex",
                   Cost |-> cost.value,
                   BlockSize |-> blockSize.value,
                   Parallelism |-> parallelism.value,
                   Salt |-> match[4],
                   Hash |-> match[5]],
          err |-> FALSE, panic |-> FALSE]

\* the earliest DecodeScryptPHC: the branch for len(match) == 0 is empty, and
\* match[1] of an empty match is an index out of range
DecodeScryptPHCEarliest(s) ==
    IF scryptPHCRxEarliest(s) = NoMatch
    THEN [phc |-> NilScryptPHC, err |-> FALSE, panic |-> TRUE]
    ELSE scryptPHCEarliestFromMatch(scryptPHCRxEarliest(s),
                                    strconvAtoi(scryptPHCRxEarliest(s)[1]),
                                    strconvAtoi(scryptPHCRxEarliest(s)[2]),
                                    strconvAtoi(scryptPHCRxEarliest(s)[3]))

ScryptCosts == {-1, 0, 1, 2, 3, 16384}
ScryptBlockSizes == {-1, 0, 1, 8}
ScryptParallelisms == {-1, 0, 1, 2}

ScryptInstances ==
    {[rev |-> "regex", Cost |-> c, BlockSize |-> r, Parallelism |-> p,
      Salt |-> <<>>, Hash |-> <<>>] :
        c \in ScryptCosts, r \in ScryptBlockSizes, p \in ScryptParallelisms}
    \cup
    {[rev |-> "schema", Cost |-> c, BlockSize |-> r, Parallelism |-> p,
      Salt |-> <<>>, SaltString |-> <<>>, Hash |-> <<>>, HashString |-> <<>>] :
        c \in ScryptCosts, r \in ScryptBlockSizes, p \in ScryptParallelisms}

\* strings for the earliest DecodeScryptPHC: matching, matching inside a
\* longer string, without the hash, with a sign
ScryptEarliestInputs ==
    {<<"$", "s", "c", "r", "y", "p", "t", "$", "l", "n", "=", "1", "5", ",", "r", "=", "8",
       ",", "p", "=", "1", "$", "A", "A", "A", "A", "$", "A", "A", "A", "A">>,
     <<"x", "$", "s", "c", "r", "y", "p", "t", "$", "l", "n", "=", "1", "5", ",", "r", "=", "8",
       ",", "p", "=", "0", "$", "A", "A", "$", "A", "A", "=">>,
     <<"$", "s", "c", "r", "y", "p", "t", "$", "l", "n", "=", "1", "5", ",", "r", "=", "8",
       ",", "p", "=", "1", "$", "A", "A", "A", "A">>,
     <<"$", "s", "c", "r", "y", "p", "t", "$", "l", "n", "=", "1", "5", ",", "r", "=", "8",
       ",", "p", "=", "1">>,
     <<"$", "s", "c", "r", "y", "p", "t", "$", "l", "n", "=", "-", "1", ",", "r", "=", "8",
       ",", "p", "=", "1", "$", "A", "A", "A", "A", "$", "A", "A", "A", "A">>,
     <<"$", "s", "c", "r", "y", "p", "t", "$", "l", "n", "=", "9", "9", "9", "9", "9", "9",
       "9", "9", "9", "9", ",", "r", "=", "8", ",", "p", "=", "1", "$", "A", "$", "A">>,
     <<>>}

\* instances built by a caller, of each revision
Argon2VariantValues == {<<"a", "r", "g", "o", "n", "2", "i">>,
                        <<"a", "r", "g", "o", "n", "2", "j">>}
Argon2VersionValues == {16, 17, 19}
Argon2MemoryValues == {0, 8, 15, 16}
Argon2IterationsValues == {0, 1}
Argon2ParallelismValues == {0, 1, 2, 255}
Argon2TextValues == {<<>>, Repeat("A", 4), Repeat("A", 5)}

Argon2Instances ==
    {[rev |-> "Version", Variant |-> va, Version |-> ve, Memory |-> m,
      Iterations |-> i, Parallelism |-> pa, Salt |-> sa, Hash |-> h] :
        va \in Argon2VariantValues, ve \in Argon2VersionValues,
        m \in Argon2MemoryValues, i \in Argon2IterationsValues,
        pa \in Argon2ParallelismValues, sa \in Argon2TextValues,
        h \in {<<>>, Repeat("A", 5)}}
    \cup
    {[rev |-> "KeyId", Variant |-> va, Memory |-> m, Iterations |-> i,
      Parallelism |-> pa, KeyId |-> k, Data |-> d, Salt |-> sa, Hash |-> <<>>] :
        va \in Argon2VariantValues, m \in Argon2MemoryValues,
        i \in Argon2IterationsValues, pa \in Argon2ParallelismValues,
        k \in Argon2TextValues, d \in {<<>>, Repeat("A", 5)},
        sa \in Argon2TextValues}
    \cup
    {[rev |-> "Schema", Variant |-> va, Version |-> ve, M |-> m, T |-> i,
      P |-> pa] :
        va \in Argon2VariantValues, ve \in Argon2VersionValues,
        m \in Argon2MemoryValues, i \in Argon2IterationsValues,
        pa \in Argon2ParallelismValues}

InitValidate ==
    /\ NoDecode
    /\ \/ /\ src \in katBad \cup katGood \cup ScryptEarliestInputs
          /\ op = "none" /\ phc = NilArgon2PHC
       \/ src = <<>> /\ op = "new" /\ phc \in Argon2Instances \cup ScryptInstances
    /\ out = [text |-> <<>>, err |-> FALSE]
    /\ raw = <<>>
    /\ encoded = <<>>
    /\ decoded = NilDecoded
    /\ waiting = NoWaiting

\* phc.ValidateParameters() on an instance that was decoded or built
CallArgon2ValidateParameters ==
    /\ op \in {"DecodeArgon2PHC", "new"}
    /\ phc.rev \in {"Version", "KeyId", "Schema"}
    /\ op' = "ValidateParameters"
    /\ out' = [text |-> <<>>, err |-> Argon2ValidateParameters(phc)]
    /\ UNCHANGED <<src, phc, raw, encoded, decoded, waiting>>
    /\ UNCHANGED decodeVars

\* the earliest DecodeScryptPHC on a string
CallDecodeScryptPHCEarliest ==
    /\ op = "none"
    /\ op' = "DecodeScryptPHC"
    /\ LET decodedPHC == DecodeScryptPHCEarliest(src)
       IN  /\ phc' = decodedPHC.phc
           /\ out' = [text |-> <<>>, err |-> decodedPHC.err,
                      panic |-> decodedPHC.panic]
    /\ UNCHANGED <<src, raw, encoded, decoded, waiting>>
    /\ UNCHANGED decodeVars

\* phc.ValidateParameters() on a ScryptPHC that was decoded or built
CallScryptValidateParameters ==
    /\ op \in {"DecodeScryptPHC", "new"}
    /\ phc.rev \in {"regex", "schema"}
    /\ op' = "ScryptValidateParameters"
    /\ LET validated == ScryptValidateParameters(phc)
       IN  out' = [text |-> <<>>, err |-> validated.err, panic |-> validated.panic]
    /\ UNCHANGED <<src, phc, raw, encoded, decoded, waiting>>
    /\ UNCHANGED decodeVars

NextValidate ==
    \/ CallDecodeArgon2PHCVersion
    \/ CallDecodeArgon2PHCKeyId
    \/ CallArgon2ValidateParameters
    \/ CallDecodeScryptPHCEarliest
    \/ CallScryptValidateParameters

SpecValidate == InitValidate /\ [][NextValidate]_vars

\* C21: every string of katBad is rejected by DecodeArgon2PHC or by the
\* ValidateParameters that follows it: no string of katBad is decoded without
\* an error and then validated without an error
C21_KatBadRejected ==
    (src \in katBad /\ op = "ValidateParameters") => out.err

\* C25: ValidateParameters returns nil exactly when the variant is one of the
\* three, the version is 16 or 19, memory, iterations and parallelism are in
\* their ranges, memory is at least 8 * parallelism and no base64 text has a
\* length of 1 mod 4
Argon2Memory(p) == IF p.rev = "Schema" THEN p.M ELSE p.Memory
Argon2Iterations(p) == IF p.rev = "Schema" THEN p.T ELSE p.Iterations
Argon2Parallelism(p) == IF p.rev = "Schema" THEN p.P ELSE p.Parallelism
Argon2Texts(p) ==
    CASE p.rev = "Version" -> {p.Salt, p.Hash}
      [] p.rev = "KeyId" -> {p.KeyId, p.Data, p.Salt, p.Hash}
      [] p.rev = "Schema" -> {}
Argon2ParametersValid(p) ==
    /\ p.Variant \in {<<"a", "r", "g", "o", "n", "2", "i", "d">>,
                     <<"a", "r", "g", "o", "n", "2", "i">>,
                     <<"a", "r", "g", "o", "n", "2", "d">>}
    /\ p.rev # "KeyId" => p.Version \in {16, 19}
    /\ Argon2Memory(p) >= 1
    /\ Argon2Iterations(p) >= 1
    /\ Argon2Parallelism(p) >= 1 /\ Argon2Parallelism(p) <= 255
    /\ Argon2Memory(p) >= 8 * Argon2Parallelism(p)
    /\ \A s \in Argon2Texts(p) : Len(s) % 4 # 1
C25_ValidateParameters ==
    op = "ValidateParameters" => (~out.err <=> Argon2ParametersValid(phc))

(***************************************************************************)
(* Two calls of PHCSchema.Decode on one schema.  Decode as one function of  *)
(* the schema and the string, and a second call whose position and locals   *)
(* are kept in waiting while the other call takes its steps.                *)
(***************************************************************************)
\* Decode from the hash on, with the instance so far
decodeFromHash(sch, r, rest) ==
    IF Len(rest) = 0
    THEN [res |-> r, err |-> NilError]
    ELSE IF decodeBase64(sch, rest[1]).err
    THEN [res |-> [r EXCEPT !.HashString = rest[1]],
          err |-> NewPHCError(<<Lit("error decoding hash from base64")>>,
                              "Base64DecodeError")]
    ELSE [res |-> [r EXCEPT !.HashString = rest[1],
                            !.Hash = decodeBase64(sch, rest[1]).bytes],
          err |-> IF Len(rest) # 1
                  THEN NewPHCError(<<Lit("to many '$' in input string")>>,
                                   "ErrInvalidPHCStructure")
                  ELSE NilError]

\* Decode from the salt on, with the instance so far
decodeFromSalt(sch, r, rest) ==
    IF Len(rest) = 0
    THEN [res |-> r, err |-> NilError]
    ELSE IF decodeBase64(sch, rest[1]).err
    THEN [res |-> [r EXCEPT !.SaltString = rest[1]],
          err |-> NewPHCError(<<Lit("error decoding salt from base64 string")>>,
                              "Base64DecodeError")]
    ELSE decodeFromHash(sch,
                        [r EXCEPT !.SaltString = rest[1],
                                  !.Salt = decodeBase64(sch, rest[1]).bytes],
                        Tail(rest))

\* Decode from the result of matchParameters on
decodeFromMatch(sch, r, matched, rest) ==
    IF matched.err # NilError
    THEN [res |-> r, err |-> matched.err]
    ELSE decodeFromSalt(sch, [r EXCEPT !.Parameters = matched.res], rest)

\* Decode from the result of parseParameters on
decodeFromParameters(sch, r, parsed, rest) ==
    IF parsed.err # NilError
    THEN [res |-> r, err |-> parsed.err]
    ELSE decodeFromMatch(sch, r, matchParameters(sch, parsed.res), rest)

\* Decode from the function name on, with the segments of the string
decodeFromFunctionName(sch, parts) ==
    IF \E i \in 1..Len(parts) : parts[i] = <<>>
    THEN [res |-> ZeroInstance,
          err |-> newInvalidPHCStructureError(
                      <<Lit("found two consecutive '$' in string")>>)]
    ELSE IF ~\E i \in 1..Len(sch.FunctionNames) : sch.FunctionNames[i] = parts[1]
    THEN [res |-> ZeroInstance,
          err |-> NewMismatchedFunctionNameError(parts[1], sch.FunctionNames)]
    ELSE IF Len(parts) > 1 /\ ContainsRune(parts[2], "=")
    THEN decodeFromParameters(sch, [ZeroInstance EXCEPT !.Function = parts[1]],
                              parseParameters(parts[2]),
                              SubSeq(parts, 3, Len(parts)))
    ELSE decodeFromMatch(sch, [ZeroInstance EXCEPT !.Function = parts[1]],
                         matchParameters(sch, <<>>), Tail(parts))

\* PHCSchema.Decode, called alone
Decode(sch, s) ==
    IF ~HasPrefix(s, <<"$">>)
    THEN [res |-> ZeroInstance,
          err |-> newInvalidPHCStructureError(
                      <<Lit("phc string must begin with \"$\"")>>)]
    ELSE decodeFromFunctionName(sch, Split(Tail(s), "$"))

ConcurrentInputs ==
    {<<"$", "f">>,
     <<"f">>,
     <<"$", "g", "$", "b", "=", "2">>,
     <<"$", "f", "$", "a", "=", "1", "$", "A", "A", "A", "A">>,
     <<"$", "f", "$", "a", "=", "1", "$", "A", "R">>,
     <<"$", "f", "$", "a", "=", "1", "$", "A", "A", "A", "A", "$", "A", "A", "A", "A">>,
     <<"$", "f", "$", "A", "A", "A", "A", "$", "A", "A", "A", "A", "$", "A", "A", "A", "A">>,
     <<"$", "f", "$", "a", "=", "1", ",", "b", "$", "A", "A", "A", "A">>}

\* a call that has not taken a step
NewCall(s) ==
    [input |-> s, pc |-> "start", split |-> <<>>, parsedParameters |-> <<>>,
     res |-> ZeroInstance, err |-> NilError]

InitConcurrent ==
    /\ schema \in SegmentSchemas
    /\ input \in ConcurrentInputs
    /\ pc = "start"
    /\ split = <<>>
    /\ parsedParameters = <<>>
    /\ res = ZeroInstance
    /\ err = NilError
    /\ waiting \in {NewCall(s) : s \in ConcurrentInputs}
    /\ src = <<>>
    /\ op = "none"
    /\ out = [bytes |-> <<>>, err |-> FALSE]
    /\ phc = NilArgon2PHC
    /\ raw = <<>>
    /\ encoded = <<>>
    /\ decoded = NilDecoded

\* the scheduler: the running call of Decode stops, the other one goes on
\* where it stopped.  The argument, the position, split, parsedParameters,
\* res and the error belong to a call; the schema is the same for both.
Switch ==
    /\ waiting # NoWaiting
    /\ input' = waiting.input
    /\ pc' = waiting.pc
    /\ split' = waiting.split
    /\ parsedParameters' = waiting.parsedParameters
    /\ res' = waiting.res
    /\ err' = waiting.err
    /\ waiting' = [input |-> input, pc |-> pc, split |-> split,
                   parsedParameters |-> parsedParameters, res |-> res,
                   err |-> err]
    /\ UNCHANGED <<schema, src, op, out, phc, raw, encoded, decoded>>

NextConcurrent ==
    \/ DecodeSplit
    \/ DecodeFunctionName
    \/ DecodeParameters
    \/ DecodeMatch
    \/ DecodeSalt
    \/ DecodeHash
    \/ DecodeEnd
    \/ Switch

SpecConcurrent == InitConcurrent /\ [][NextConcurrent]_vars

\* C22: no step of Decode changes the schema, and whatever the other call on
\* the same schema has done in between, a call that returns returns what
\* Decode returns for its argument when it is called alone
C22_ConcurrentDecode ==
    [][/\ schema' = schema
       /\ pc' = "done" => /\ res' = Decode(schema, input').res
                          /\ err' = Decode(schema, input').err]_vars

\* both calls stopped and went on in between, and the one that returns first
\* returns a salt while the other has parsed its parameters only
C22_Witness ==
    /\ waiting # NoWaiting
    /\ pc = "done" /\ err = NilError /\ res.Salt # <<>>
    /\ waiting.pc = "Match" /\ waiting.input # input

(***************************************************************************)
(* The errors of matchParameters, told from the descriptions and the parsed *)
(* entries: the cursor over the descriptions stops at the first description *)
(* that has the name of the next parsed entry or is not optional.           *)
(***************************************************************************)
\* the first description after position c that has the name or is not
\* optional, 0 if there is none
FirstStop(c, name) ==
    LET stops == {i \in (c + 1)..Len(Descriptions) :
                     Descriptions[i].Name = name \/ ~Descriptions[i].Optional}
    IN  IF stops = {} THEN 0 ELSE CHOOSE i \in stops : \A k \in stops : i <= k

\* the first description after position c that is not optional, 0 if none
FirstRequired(c) ==
    LET required == {i \in (c + 1)..Len(Descriptions) : ~Descriptions[i].Optional}
    IN  IF required = {} THEN 0 ELSE CHOOSE i \in required : \A k \in required : i <= k

\* what matching comes to with the cursor behind description c and the parsed
\* entries from j on left: "ok", a value that is not valid ("value"), parsed
\* entries left when the descriptions are used up ("unmatched", with the name
\* of the first entry left), a description that is not optional and was not
\* matched ("missing", with its name)
RECURSIVE MatchOutcome(_, _)
MatchOutcome(c, j) ==
    IF j > Len(parsedParameters)
    THEN IF FirstRequired(c) = 0
         THEN [kind |-> "ok", name |-> <<>>]
         ELSE [kind |-> "missing", name |-> Descriptions[FirstRequired(c)].Name]
    ELSE IF FirstStop(c, parsedParameters[j].Name) = 0
    THEN [kind |-> "unmatched", name |-> parsedParameters[j].Name]
    ELSE IF Descriptions[FirstStop(c, parsedParameters[j].Name)].Name
                # parsedParameters[j].Name
    THEN [kind |-> "missing",
          name |-> Descriptions[FirstStop(c, parsedParameters[j].Name)].Name]
    ELSE IF GetValueValidatorFunc(
                Descriptions[FirstStop(c, parsedParameters[j].Name)],
                parsedParameters[j].Value)
    THEN [kind |-> "value", name |-> parsedParameters[j].Name]
    ELSE MatchOutcome(FirstStop(c, parsedParameters[j].Name), j + 1)

\* C23: the step of Decode that calls matchParameters fails with
\* ErrUnmatchedParameterName exactly when the descriptions are used up while
\* parsed entries are left, and the error names the first entry left; every
\* other failure of that step over a name wraps
\* ErrNonOptionalParameterMissing and names the first description that is not
\* optional and that the cursor could not match
C23_MatchErrors ==
    [][pc = "Match" =>
        /\ Is(err', "ErrUnmatchedParameterName")
               <=> MatchOutcome(0, 1).kind = "unmatched"
        /\ MatchOutcome(0, 1).kind = "unmatched"
               => err'.Message = parameterMessage(MatchOutcome(0, 1).name)
        /\ MatchOutcome(0, 1).kind = "missing"
               => /\ Is(err', "ErrNonOptionalParameterMissing")
                  /\ err'.Message = parameterMessage(MatchOutcome(0, 1).name)
        /\ (err' # NilError /\ MatchOutcome(0, 1).kind # "value")
               => \/ Is(err', "ErrUnmatchedParameterName")
                  \/ Is(err', "ErrNonOptionalParameterMissing")
        /\ err' = NilError <=> MatchOutcome(0, 1).kind = "ok"]_vars

\* the first entry matched the first description, the second entry has a name
\* no later description has, and the error names that second entry
C23_Witness ==
    /\ pc = "done"
    /\ Is(err, "ErrUnmatchedParameterName")
    /\ Len(parsedParameters) = 2 /\ Len(Descriptions) = 3
    /\ parsedParameters[1].Name = Descriptions[1].Name
    /\ err.Message = parameterMessage(parsedParameters[2].Name)

\* C24: no call of ScryptPHC.ValidateParameters and no call of DecodeScryptPHC
\* stops the program: ValidateParameters returns nil or an error for every
\* Cost, BlockSize and Parallelism, and DecodeScryptPHC returns an error for
\* every string its expression does not match
C24_NoPanic ==
    /\ op = "ScryptValidateParameters" => ~out.panic
    /\ (op = "DecodeScryptPHC" /\ scryptPHCRxEarliest(src) = NoMatch)
           => (~out.panic /\ out.err)

\* 2 * 2 * ... * 2, n times
RECURSIVE Doubled(_)
Doubled(n) == IF n = 0 THEN 1 ELSE 2 * Doubled(n - 1)

\* the number ln of the string, when strconv.Atoi can read it
ScryptLn == strconvAtoi(ScryptValues(input)[1])

\* C26: when DecodeScrypt comes to scryptFromStringParams with an ln that is
\* a number, it returns an error about the value of the parameter for
\* ln <= 0 and for ln > IntSize - 2, and for 1 <= ln <= IntSize - 2 (r and p
\* being numbers) it returns an instance whose Cost is 2^ln; a Cost returned
\* is never zero or negative
C26_ScryptCost ==
    (/\ schema = ScryptPHCSchema /\ pc = "returned" /\ err = NilError
     /\ ~ScryptLn.err) =>
        /\ (ScryptLn.value <= 0 \/ ScryptLn.value > intSize - 2)
               => /\ Is(decoded.err, "ErrParameterValueValidation")
                  /\ decoded.phc = NilScryptPHC
        /\ (/\ ScryptLn.value >= 1 /\ ScryptLn.value <= intSize - 2
            /\ ~strconvAtoi(ScryptValues(input)[2]).err
            /\ ~strconvAtoi(ScryptValues(input)[3]).err)
               => /\ decoded.err = NilError
                  /\ decoded.phc # NilScryptPHC
        /\ decoded.phc # NilScryptPHC
               => /\ decoded.err = NilError
                  /\ decoded.phc.Cost = Doubled(ScryptLn.value)
                  /\ decoded.phc.Cost > 0

\* ln = 30 = IntSize - 2 is the largest ln accepted: Cost is 2^30
C26_Witness ==
    /\ schema = ScryptPHCSchema /\ pc = "returned"
    /\ ScryptValues(input)[1] = <<"3", "0">>
    /\ decoded.err = NilError
    /\ decoded.phc.Cost = 1073741824

\* the segments of the input after the function name and, if there is one,
\* the parameter segment
SaltAndHashSegments ==
    LET segs == Split(Tail(input), "$")
    IN  IF Len(segs) >= 2 /\ ContainsRune(segs[2], "=")
        THEN SubSeq(segs, 3, Len(segs))
        ELSE Tail(segs)

SegmentOrEmpty(i) ==
    IF Len(SaltAndHashSegments) >= i THEN SaltAndHashSegments[i] ELSE <<>>

\* C27: after a successful Decode with the strict decoder, SaltString and
\* HashString are the segments of the input (empty when there is none), Salt
\* and Hash are their decoded bytes, the bytes encode to the texts again, and
\* there is a hash text only when there is a salt text
C27_SaltAndHashFields ==
    (Succeeded /\ schema.Decoder = DefaultBase64) =>
        /\ res.SaltString = SegmentOrEmpty(1)
        /\ res.HashString = SegmentOrEmpty(2)
        /\ res.Salt = Base64Decode(res.SaltString).bytes
        /\ res.Hash = Base64Decode(res.HashString).bytes
        /\ Base64Encode(res.Salt) = res.SaltString
        /\ Base64Encode(res.Hash) = res.HashString
        /\ res.HashString # <<>> => res.SaltString # <<>>

\* C28: on every string, a strict decoding that succeeds means the one that
\* is not strict succeeds with the same bytes; the strict one succeeds exactly
\* when the other succeeds and its bytes encode to the string; the handler
\* decodes strictly when Strict is set and not strictly otherwise, and
\* DefaultBase64 is strict
C28_StrictRefinesNotStrict ==
    (op \in {"Base64Decode", "Base64DecodeNotStrict"}) =>
        /\ op = "Base64Decode" => out = Base64Decode(src)
        /\ op = "Base64DecodeNotStrict" => out = Base64DecodeNotStrict(src)
        /\ ~Base64Decode(src).err
               => /\ ~Base64DecodeNotStrict(src).err
                  /\ Base64DecodeNotStrict(src).bytes = Base64Decode(src).bytes
        /\ ~Base64Decode(src).err
               <=> /\ ~Base64DecodeNotStrict(src).err
                   /\ Base64Encode(Base64DecodeNotStrict(src).bytes) = src
        /\ HandlerBase64Decode(NewDefaultBase64Handler(TRUE), src) = Base64Decode(src)
        /\ HandlerBase64Decode(NewDefaultBase64Handler(FALSE), src)
               = Base64DecodeNotStrict(src)
        /\ DefaultBase64 = NewDefaultBase64Handler(TRUE)

(***************************************************************************)
(* Encode of ScryptPHC and Argon2PHC on an io.Writer.  A writer is the text *)
(* it has taken so far and, when it is limited, the number of bytes it still *)
(* takes before Write fails; strings.Builder is not limited.  A call of     *)
(* fmt.Fprintf or fmt.Fprint formats its text and hands it to Write once.   *)
(* A result is the writer after the call, the count returned and whether an *)
(* error is returned.                                                       *)
(***************************************************************************)
MaxRoom == 32

Builder == [buf |-> <<>>, limited |-> FALSE, room |-> 0]

LimitedWriter(room) == [buf |-> <<>>, limited |-> TRUE, room |-> room]

\* w.Write(p): all of p, or as much of it as there is room for and an error
Write(w, p) ==
    IF ~w.limited
    THEN [w |-> [w EXCEPT !.buf = @ \o p], n |-> Len(p), err |-> FALSE]
    ELSE IF Len(p) <= w.room
    THEN [w |-> [w EXCEPT !.buf = @ \o p, !.room = @ - Len(p)],
          n |-> Len(p), err |-> FALSE]
    ELSE [w |-> [w EXCEPT !.buf = @ \o SubSeq(p, 1, w.room), !.room = 0],
          n |-> w.room, err |-> TRUE]

\* the verb %d of fmt on an int
formatInt(n) == IF n < 0 THEN <<"-">> \o FormatDecimal(0 - n) ELSE FormatDecimal(n)

\* res += write after a further write: the counts add up, the error is the last
addWrite(before, after) ==
    [w |-> after.w, n |-> before.n + after.n, err |-> after.err]

\* mutant: the count of the hash is not added to res
writeSaltAndHashToSaltCount(w, salt, hash) ==
    IF salt = <<>>
    THEN [w |-> w, n |-> 0, err |-> hash # <<>>]
    ELSE IF Write(w, <<"$">> \o salt).err \/ hash = <<>>
    THEN Write(w, <<"$">> \o salt)
    ELSE [w |-> Write(Write(w, <<"$">> \o salt).w, <<"$">> \o hash).w,
          n |-> Write(w, <<"$">> \o salt).n,
          err |-> Write(Write(w, <<"$">> \o salt).w, <<"$">> \o hash).err]

\* writeSaltAndHash on a writer
writeSaltAndHashTo(w, salt, hash) ==
    IF salt = <<>>
    THEN [w |-> w, n |-> 0, err |-> hash # <<>>]
    ELSE IF Write(w, <<"$">> \o salt).err \/ hash = <<>>
    THEN Write(w, <<"$">> \o salt)
    ELSE addWrite(Write(w, <<"$">> \o salt),
                  Write(Write(w, <<"$">> \o salt).w, <<"$">> \o hash))

\* the end of both Encode: salt and hash after what was written before
encodeSaltAndHash(before, salt, hash) ==
    IF before.err
    THEN before
    ELSE addWrite(before, writeSaltAndHashTo(before.w, salt, hash))

\* "$scrypt$ln=%d,r=%d,p=%d"
scryptPrefix(p) ==
    <<"$", "s", "c", "r", "y", "p", "t", "$", "l", "n", "=">> \o formatInt(p.Cost)
        \o <<",", "r", "=">> \o formatInt(p.BlockSize)
        \o <<",", "p", "=">> \o formatInt(p.Parallelism)

\* mutant: r and p change places in the text
ScryptEncodeSwapped(w, p) ==
    encodeSaltAndHash(
        Write(w, <<"$", "s", "c", "r", "y", "p", "t", "$", "l", "n", "=">>
                     \o formatInt(p.Cost)
                     \o <<",", "r", "=">> \o formatInt(p.Parallelism)
                     \o <<",", "p", "=">> \o formatInt(p.BlockSize)),
        p.Salt, p.Hash)

\* ScryptPHC.Encode
ScryptEncode(w, p) == encodeSaltAndHash(Write(w, scryptPrefix(p)), p.Salt, p.Hash)

\* ScryptPHC.EncodeString: ("", err) on an error of Encode
ScryptEncodeString(p) ==
    IF ScryptEncode(Builder, p).err
    THEN [text |-> <<>>, err |-> TRUE]
    ELSE [text |-> ScryptEncode(Builder, p).w.buf, err |-> FALSE]

\* ScryptPHC.Equals
ScryptEquals(p, other) ==
    /\ p.Cost = other.Cost
    /\ p.BlockSize = other.BlockSize
    /\ p.Parallelism = other.Parallelism
    /\ p.Salt = other.Salt
    /\ p.Hash = other.Hash

\* "$%s$m=%d,t=%d,p=%d"
argon2Prefix(p) ==
    <<"$">> \o p.Variant \o <<"$", "m", "=">> \o formatInt(p.Memory)
        \o <<",", "t", "=">> \o formatInt(p.Iterations)
        \o <<",", "p", "=">> \o formatInt(p.Parallelism)

\* Argon2PHC.Encode: a parameter that is written only when it is not empty
encodeOptional(before, name, value) ==
    IF before.err \/ value = <<>>
    THEN before
    ELSE addWrite(before, Write(before.w, name \o value))

\* Argon2PHC.Encode, revision KeyId
Argon2Encode(w, p) ==
    encodeSaltAndHash(
        encodeOptional(
            encodeOptional(Write(w, argon2Prefix(p)),
                           <<",", "k", "e", "y", "i", "d", "=">>, p.KeyId),
            <<",", "d", "a", "t", "a", "=">>, p.Data),
        p.Salt, p.Hash)

\* Encode of the type of the instance
Encode(w, p) == IF p.rev = "regex" THEN ScryptEncode(w, p) ELSE Argon2Encode(w, p)

EncodeTexts == {<<>>, <<"A", "A", "A", "A">>, <<"a", "/", "+">>}

EncodeInstances ==
    {[rev |-> "regex", Cost |-> c, BlockSize |-> r, Parallelism |-> pa,
      Salt |-> sa, Hash |-> h] :
        c \in {-1, 0, 15}, r \in {0, 8}, pa \in {1, 16},
        sa \in EncodeTexts, h \in EncodeTexts}
    \cup
    {[rev |-> "KeyId", Variant |-> <<"a", "r", "g", "o", "n", "2", "i">>,
      Memory |-> 120, Iterations |-> i, Parallelism |-> 2, KeyId |-> k,
      Data |-> d, Salt |-> sa, Hash |-> h] :
        i \in {-1, 1}, k \in {<<>>, <<"A", "A">>}, d \in {<<>>, <<"A", "A">>},
        sa \in EncodeTexts, h \in {<<>>, <<"A", "A", "A", "A">>}}

InitEncode ==
    /\ NoDecode
    /\ \/ src \in ScryptInputs /\ op = "none" /\ phc = NilArgon2PHC
       \/ src = <<>> /\ op = "new" /\ phc \in EncodeInstances
    /\ out = [text |-> <<>>, err |-> FALSE]
    /\ raw = <<>>
    /\ encoded = <<>>
    /\ decoded = NilDecoded
    /\ waiting = NoWaiting

\* phc.Encode(w) on a writer that is not limited or has room for some bytes:
\* encoded is what the writer has taken, out the count and the error
CallEncode ==
    /\ op = "new"
    /\ op' = "Encode"
    /\ \E w \in {Builder} \cup {LimitedWriter(room) : room \in 0..MaxRoom} :
           /\ encoded' = Encode(w, phc).w.buf
           /\ out' = [text |-> <<>>, err |-> Encode(w, phc).err,
                      n |-> Encode(w, phc).n,
                      full |-> w.limited /\ Encode(w, phc).w.room = 0]
    /\ UNCHANGED <<src, phc, raw, decoded, waiting>>
    /\ UNCHANGED decodeVars

\* phc.EncodeString() on a ScryptPHC that was built
CallScryptEncodeString ==
    /\ op = "new"
    /\ phc.rev = "regex"
    /\ op' = "EncodeString"
    /\ out' = ScryptEncodeString(phc)
    /\ encoded' = ScryptEncodeString(phc).text
    /\ UNCHANGED <<src, phc, raw, decoded, waiting>>
    /\ UNCHANGED decodeVars

\* DecodeScryptPHC on what EncodeString returned without an error
CallDecodeScryptPHCEncoded ==
    /\ op = "EncodeString"
    /\ ~out.err
    /\ op' = "DecodeScryptPHC(EncodeString)"
    /\ decoded' = DecodeScryptPHC(encoded)
    /\ UNCHANGED <<src, phc, raw, out, encoded, waiting>>
    /\ UNCHANGED decodeVars

\* EncodeString on what DecodeScryptPHC returned without an error
CallScryptEncodeStringDecoded ==
    /\ op = "DecodeScryptPHC"
    /\ ~out.err
    /\ op' = "EncodeString(DecodeScryptPHC)"
    /\ out' = ScryptEncodeString(phc)
    /\ encoded' = ScryptEncodeString(phc).text
    /\ UNCHANGED <<src, phc, raw, decoded, waiting>>
    /\ UNCHANGED decodeVars

NextEncode ==
    \/ CallEncode
    \/ CallScryptEncodeString
    \/ CallDecodeScryptPHCEncoded
    \/ CallDecodeScryptPHC
    \/ CallScryptEncodeStringDecoded

SpecEncode == InitEncode /\ [][NextEncode]_vars

\* the text Encode writes before the salt and the hash
EncodePrefix(p) ==
    IF p.rev = "regex"
    THEN scryptPrefix(p)
    ELSE argon2Prefix(p)
             \o (IF p.KeyId # <<>>
                 THEN <<",", "k", "e", "y", "i", "d", "=">> \o p.KeyId ELSE <<>>)
             \o (IF p.Data # <<>>
                 THEN <<",", "d", "a", "t", "a", "=">> \o p.Data ELSE <<>>)

\* C29: the count Encode returns is the number of bytes the writer has taken,
\* with or without an error; when Encode fails because the hash is not empty
\* and the salt is (and not because the writer is full), the text before the
\* salt has been written and the count is its length
C29_EncodeCount ==
    op = "Encode" =>
        /\ out.n = Len(encoded)
        /\ (phc.Salt = <<>> /\ phc.Hash # <<>> /\ ~out.full)
               => /\ out.err
                  /\ encoded = EncodePrefix(phc)
                  /\ out.n = Len(EncodePrefix(phc))

\* a hash without a salt on a writer that takes everything: an error, after
\* the parameters with keyid and data have been written
C29_Witness ==
    /\ op = "Encode" /\ phc.rev = "KeyId"
    /\ phc.Salt = <<>> /\ phc.Hash # <<>> /\ phc.KeyId # <<>> /\ phc.Data # <<>>
    /\ out.err /\ ~out.full
    /\ out.n = 39

\* over the base64 alphabet
IsBase64Text(s) == \A i \in 1..Len(s) : decodeMap(s[i]) # 255

\* C30: for a ScryptPHC with Cost, BlockSize and Parallelism >= 0, Salt and
\* Hash over the base64 alphabet and no hash without a salt, EncodeString
\* succeeds and DecodeScryptPHC of the text returns an instance that Equals
\* it; and for a string DecodeScryptPHC accepts, EncodeString of the instance
\* returns the string
C30_ScryptRoundTrip ==
    /\ (/\ op \in {"EncodeString", "DecodeScryptPHC(EncodeString)"}
        /\ phc.Cost >= 0 /\ phc.BlockSize >= 0 /\ phc.Parallelism >= 0
        /\ IsBase64Text(phc.Salt) /\ IsBase64Text(phc.Hash)
        /\ phc.Salt = <<>> => phc.Hash = <<>>)
           => /\ ~out.err
              /\ op = "DecodeScryptPHC(EncodeString)"
                     => /\ ~decoded.err
                        /\ ScryptEquals(phc, decoded.phc)
    /\ op = "EncodeString(DecodeScryptPHC)"
           => /\ ~out.err
              /\ encoded = src

\* an instance with salt and hash came back from its text
C30_Witness ==
    /\ op = "DecodeScryptPHC(EncodeString)"
    /\ phc.Cost = 15 /\ phc.Salt # <<>> /\ phc.Hash # <<>>
    /\ ~decoded.err
    /\ decoded.phc.Hash = phc.Hash

====
